---- MODULE Spec2Model ----
(***************************************************************************)
(* A model of scripts/build.py and of the parts of scripts/utils.py it     *)
(* uses: one run of PluginBuilder.build, with the recursive                *)
(* DependencyBuilder.build_dependency traversal made explicit as a call    *)
(* stack.                                                                  *)
(*                                                                         *)
(* Representation.  A platform identifier and a pattern are sequences of   *)
(* '-'-separated segments ("linux-.*" is <<"linux", ".*">>).  A text       *)
(* (command, artifact pattern, environment value) is a sequence of tokens; *)
(* the token "{V}" is the placeholder of variable V, and a path is the     *)
(* sequence of its components.  A Python dict is a sequence of [k, v]      *)
(* entries in insertion order when its order matters (rule sets, env), a   *)
(* TLA+ function otherwise.                                                *)
(***************************************************************************)
EXTENDS Integers, Sequences, FiniteSets, TLC

VARIABLES
    platform,       \* --platform
    config,         \* the plugin's YAML configuration (PluginBuilder.config)
    deps_yml,       \* the 'dependencies' mapping of plugins/dependencies.yml
    fs,             \* the file system: path -> content, for the paths that exist
    sets,           \* heap of Python set objects (the building_deps sets)
    builders,       \* heap of DependencyBuilder objects
    stack,          \* call stack of build_dependency / _execute_build frames
    pc,             \* position of PluginBuilder.build / main
    topIdx,         \* loop index of PluginBuilder._build_dependencies
    plugin_env,     \* PluginBuilder.env
    exc,            \* the exception in flight or caught by main ("none" if none)
    chain,          \* the dependency chain reported by the circular-dependency error
    artifacts,      \* the list PluginBuilder.build returns
    calls,          \* number of build_dependency calls made so far
    log,            \* history: calls entered and left, downloads, git and shell invocations
    probe           \* inputs and results of the selectors applied on their own

vars == <<platform, config, deps_yml, fs, sets, builders, stack, pc, topIdx,
          plugin_env, exc, chain, artifacts, calls, log, probe>>

-----------------------------------------------------------------------------
(* Bounds of the model *)

\* longest dependency list a catalogue entry may declare
MaxSubDeps == 2

\* longest rule set the selectors are applied to on their own
MaxRules == 3

\* longest text, in tokens, substitute_vars is applied to on its own
MaxText == 3

\* the interpreter's recursion limit, in build_dependency frames: a call
\* that would exceed it raises RecursionError
MaxDepth == 5

\* the most test records of a release-matrix aggregation
MaxTestRecords == 3

\* the most entries of an ambient PKG_CONFIG_PATH
MaxAmbient == 2

-----------------------------------------------------------------------------
(* Python values *)

None == [none |-> TRUE]

IsNone(x) == DOMAIN x = {"none"}

\* `not x` for a dict (a record or a function over strings) or None
Falsy(x) == IsNone(x) \/ DOMAIN x = {}

\* `not x` for a list, a string or a rule set (sequences of the model)
Empty(x) == x = <<>>

Last(s) == s[Len(s)]

RECURSIVE SeqToSet(_)
SeqToSet(s) == IF s = <<>> THEN {} ELSE {Head(s)} \cup SeqToSet(Tail(s))

\* an insertion-ordered dict as a sequence of [k, v] entries
DictHas(d, key) == \E i \in 1..Len(d) : d[i].k = key

DictGet(d, key) == d[CHOOSE i \in 1..Len(d) : d[i].k = key].v

DictSet(d, key, val) ==
    IF DictHas(d, key)
    THEN [i \in 1..Len(d) |-> IF d[i].k = key THEN [k |-> key, v |-> val] ELSE d[i]]
    ELSE Append(d, [k |-> key, v |-> val])

RECURSIVE DictUpdate(_, _)
DictUpdate(d, other) ==
    IF other = <<>> THEN d
    ELSE DictUpdate(DictSet(d, Head(other).k, Head(other).v), Tail(other))

-----------------------------------------------------------------------------
(* utils.py: PlatformMatcher *)

PLATFORMS == << <<"linux", "x86_64", "glibc">>,
                <<"linux", "x86_64", "musl">>,
                <<"darwin", "x86_64">>,
                <<"darwin", "aarch64">> >>

\* re.compile fails on the pattern: an unclosed '[' is the model's invalid regex
re_error(pattern) == \E i \in 1..Len(pattern) : pattern[i] = "["

\* re.match: the pattern has to match from position 0, not to the end
RECURSIVE re_match(_, _)
re_match(pattern, text) ==
    IF pattern = <<>> THEN TRUE
    ELSE IF Head(pattern) = ".*"
         THEN \E n \in 0..Len(text) :
                 re_match(Tail(pattern), SubSeq(text, n + 1, Len(text)))
         ELSE /\ text # <<>>
              /\ Head(text) = Head(pattern)
              /\ re_match(Tail(pattern), Tail(text))

match(pattern, plat) ==
    IF re_error(pattern) THEN FALSE ELSE re_match(pattern, plat)

-----------------------------------------------------------------------------
(* utils.py: BuildConfigResolver.  A rule set is a sequence of             *)
(* [pattern, value] entries in declared order.                             *)

\* index of the entry the `for pattern, value in config.items()` loop returns
\* from, 0 when the loop runs to its end
RECURSIVE LoopReturnIndex(_, _, _)
LoopReturnIndex(rules, plat, i) ==
    IF i > Len(rules) THEN 0
    ELSE IF match(rules[i].pattern, plat) THEN i
    ELSE LoopReturnIndex(rules, plat, i + 1)

\* the same loop without its early return: the last matching entry
RECURSIVE LoopLastIndex(_, _, _)
LoopLastIndex(rules, plat, i) ==
    IF i = 0 THEN 0
    ELSE IF match(rules[i].pattern, plat) THEN i
    ELSE LoopLastIndex(rules, plat, i - 1)

get_build_config_last(rules, plat) ==
    LET i == LoopLastIndex(rules, plat, Len(rules))
    IN  IF i = 0 THEN None ELSE rules[i].value

get_build_config(rules, plat) ==
    LET i == LoopReturnIndex(rules, plat, 1)
    IN  IF i = 0 THEN None ELSE rules[i].value

get_artifacts_last(rules, plat) ==
    LET i == LoopLastIndex(rules, plat, Len(rules))
    IN  IF i = 0 THEN <<>> ELSE rules[i].value

get_artifacts(rules, plat) ==
    LET i == LoopReturnIndex(rules, plat, 1)
    IN  IF i = 0 THEN <<>> ELSE rules[i].value

get_dependencies_last(rules, plat) ==
    LET i == LoopLastIndex(rules, plat, Len(rules))
    IN  IF i = 0 THEN <<>> ELSE rules[i].value

get_dependencies(rules, plat) ==
    IF Empty(rules) THEN <<>>
    ELSE LET i == LoopReturnIndex(rules, plat, 1)
         IN  IF i = 0 THEN <<>> ELSE rules[i].value

-----------------------------------------------------------------------------
(* utils.py: EnvironmentManager *)

Placeholder(key) == "{" \o key \o "}"

\* str.replace on a token sequence: every occurrence of the placeholder token
\* is replaced by the tokens of value
RECURSIVE Replace(_, _, _)
Replace(text, ph, value) ==
    IF text = <<>> THEN <<>>
    ELSE (IF Head(text) = ph THEN value ELSE <<Head(text)>>)
         \o Replace(Tail(text), ph, value)

\* the same replacements, the last key of the mapping first
RECURSIVE substitute_vars_reversed(_, _)
substitute_vars_reversed(text, env) ==
    IF env = <<>> THEN text
    ELSE substitute_vars_reversed(
             Replace(text, Placeholder(env[Len(env)].k), env[Len(env)].v),
             SubSeq(env, 1, Len(env) - 1))

RECURSIVE substitute_vars(_, _)
substitute_vars(text, env) ==
    IF env = <<>> THEN text
    ELSE substitute_vars(Replace(text, Placeholder(Head(env).k), Head(env).v),
                         Tail(env))

\* the ambient process environment (os.environ) of the run
os_environ == <<>>

\* os.path.join(path, subdir) for each of the subdirectories
pkg_config_subdirs(path, subdirs) == [n \in 1..Len(subdirs) |-> path \o subdirs[n]]

\* the loop that removes duplicates while preserving order
RECURSIVE ordered_paths(_, _)
ordered_paths(pkg_config_paths, seen_paths) ==
    IF pkg_config_paths = <<>> THEN <<>>
    ELSE LET path == Head(pkg_config_paths)
         IN  IF Empty(path) \/ path \in seen_paths
             THEN ordered_paths(Tail(pkg_config_paths), seen_paths)
             ELSE <<path>> \o ordered_paths(Tail(pkg_config_paths), seen_paths \cup {path})

\* ':'.join(paths)
RECURSIVE join_paths(_)
join_paths(paths) ==
    IF paths = <<>> THEN <<>>
    ELSE IF Len(paths) = 1 THEN Head(paths)
    ELSE Head(paths) \o <<":">> \o join_paths(Tail(paths))

\* get_default_env under the process environment environ
get_default_env_in(environ, plat, wd, prefix) ==
    LET e1 == <<[k |-> "WORKDIR", v |-> wd]>>
        e2 == IF ~Empty(prefix)
              THEN DictSet(e1, "PREFIXDIR", prefix)
              ELSE IF Head(plat) = "linux"
                   THEN IF DictHas(environ, "SYSROOT")
                        THEN DictSet(e1, "PREFIXDIR",
                                     DictGet(environ, "SYSROOT") \o <<"usr", "local">>)
                        ELSE DictSet(e1, "PREFIXDIR", <<"usr", "local">>)
                   ELSE IF plat = <<"darwin", "x86_64">>
                        THEN DictSet(e1, "PREFIXDIR", <<"usr", "local">>)
                        ELSE IF plat = <<"darwin", "aarch64">>
                             THEN DictSet(e1, "PREFIXDIR", <<"opt", "homebrew">>)
                             ELSE e1
        e3 == IF DictHas(environ, "SYSROOT")
              THEN DictSet(e2, "SYSROOT", DictGet(environ, "SYSROOT"))
              ELSE e2
        p1 == IF DictHas(e3, "PREFIXDIR") /\ ~Empty(DictGet(e3, "PREFIXDIR"))
              THEN pkg_config_subdirs(DictGet(e3, "PREFIXDIR"),
                                      << <<"lib", "pkgconfig">>, <<"lib64", "pkgconfig">>,
                                         <<"share", "pkgconfig">>,
                                         <<"libdata", "pkgconfig">> >>)
              ELSE <<>>
        p2 == IF DictHas(e3, "SYSROOT") /\ ~Empty(DictGet(e3, "SYSROOT"))
              THEN pkg_config_subdirs(DictGet(e3, "SYSROOT"),
                                      << <<"usr", "lib", "pkgconfig">>,
                                         <<"usr", "lib64", "pkgconfig">>,
                                         <<"usr", "share", "pkgconfig">>,
                                         <<"usr", "libdata", "pkgconfig">> >>)
              ELSE <<>>
        p3 == IF DictHas(environ, "PKG_CONFIG_PATH")
                 /\ ~Empty(DictGet(environ, "PKG_CONFIG_PATH"))
              THEN <<DictGet(environ, "PKG_CONFIG_PATH")>>
              ELSE <<>>
        paths == ordered_paths(p1 \o p2 \o p3, {})
    IN  IF ~Empty(paths) THEN DictSet(e3, "PKG_CONFIG_PATH", join_paths(paths)) ELSE e3

get_default_env(plat, wd, prefix) == get_default_env_in(os_environ, plat, wd, prefix)

RECURSIVE merge_global_env_from(_, _, _)
merge_global_env_from(config_env, plat, merged) ==
    IF config_env = <<>> THEN merged
    ELSE merge_global_env_from(
             Tail(config_env), plat,
             IF match(Head(config_env).pattern, plat)
             THEN DictUpdate(merged, Head(config_env).value)
             ELSE merged)

\* the merge in which an earlier matching pattern keeps its value
RECURSIVE merge_global_env_first_wins(_, _)
merge_global_env_first_wins(config_env, plat) ==
    IF config_env = <<>> THEN <<>>
    ELSE LET n == Len(config_env)
             earlier == merge_global_env_first_wins(SubSeq(config_env, 1, n - 1), plat)
         IN  IF match(config_env[n].pattern, plat)
             THEN DictUpdate(config_env[n].value, earlier)
             ELSE earlier

merge_global_env(config_env, plat) == merge_global_env_from(config_env, plat, <<>>)

-----------------------------------------------------------------------------
(* utils.py: FileDownloader *)

\* hash_str is <<algorithm, digest>> ('algorithm:digest' split at the first
\* ':'); a file's content stands for its digest under either spelling of the
\* algorithm
verify_hash_unchecked(content, hash_str) == TRUE

verify_hash(content, hash_str) ==
    LET algorithm == IF hash_str[1] = "sha256sum" THEN "sha256" ELSE hash_str[1]
        actual_hash == content
    IN  actual_hash = hash_str[2]

\* what urlretrieve may leave at the destination
DownloadContents == {"genuine", "corrupt"}

-----------------------------------------------------------------------------
(* The configurations the runs are taken over *)

Ref(n, v) == [name |-> n, version |-> v]

\* references to catalogued versions, to a version that a's and b's tables do
\* not hold, and to a name the catalogue does not hold
A1 == Ref("a", "1")
A2 == Ref("a", "2")
B1 == Ref("b", "1")
B9 == Ref("b", "9")
Z1 == Ref("z", "1")

CataloguedRefs == {A1, A2, B1}

DepLists == UNION {[1..n -> CataloguedRefs] : n \in 0..MaxSubDeps}

Linux == <<"linux", ".*">>
AnyPlatform == <<".*">>

Rule(p, val) == [pattern |-> p, value |-> val]

StrCmd(text) == [kind |-> "str", cmd |-> text]
DictCmd(text) == [kind |-> "dict", cmd |-> text]
DictCmdCwd(text, dir) == [kind |-> "dict", cmd |-> text, cwd |-> dir]

\* a@1: tarball with a declared hash, built on linux only
VersionA1(subdeps) ==
    [dependencies |-> <<Rule(Linux, subdeps), Rule(AnyPlatform, <<>>)>>,
     type |-> "tarball",
     source |-> <<"https:", "", "host", "a-1.tar.gz">>,
     hash |-> <<"sha256sum", "genuine">>,
     build |-> <<Rule(Linux,
                      [commands |-> <<DictCmdCwd(<<"./configure", "--prefix=", "{PREFIXDIR}">>,
                                                 <<"{WORKDIR}", "a-1">>),
                                      DictCmd(<<"make", "-j", "{NPROC}">>)>>])>>]

\* b@1: git repository with a tag, built everywhere
VersionB1(subdeps) ==
    [dependencies |-> <<Rule(Linux, subdeps), Rule(AnyPlatform, <<>>)>>,
     type |-> "git",
     source |-> <<"https:", "", "host", "b.git">>,
     tag |-> "v1",
     build |-> <<Rule(AnyPlatform,
                      [env |-> <<[k |-> "CFLAGS", v |-> <<"-O2">>]>>,
                       commands |-> <<DictCmdCwd(<<"ninja">>, <<"{WORKDIR}", "b">>)>>])>>]

\* a@2, in one of five shapes
A2Variants ==
    {"leaf", "unknown_type", "uncatalogued_sub", "missing_version_sub", "darwin_only"}

VersionA2(variant) ==
    LET base == [type |-> IF variant = "unknown_type" THEN "svn" ELSE "tarball",
                 source |-> <<"https:", "", "host", "a-2.tar.gz">>,
                 build |-> <<Rule(IF variant = "darwin_only" THEN <<"darwin", ".*">>
                                  ELSE AnyPlatform,
                                  [commands |-> <<StrCmd(<<"make">>)>>])>>]
    IN  IF variant = "uncatalogued_sub"
        THEN base @@ [dependencies |-> <<Rule(AnyPlatform, <<Z1>>)>>]
        ELSE IF variant = "missing_version_sub"
             THEN base @@ [dependencies |-> <<Rule(AnyPlatform, <<B9>>)>>]
             ELSE base

\* plugins/dependencies.yml
Catalogue(a1deps, b1deps, a2variant) ==
    [n \in {"a", "b"} |->
        IF n = "a"
        THEN [versions |-> [v \in {"1", "2"} |->
                 IF v = "1" THEN VersionA1(a1deps) ELSE VersionA2(a2variant)]]
        ELSE [versions |-> [v \in {"1"} |-> VersionB1(b1deps)]]]

plugin_name == "plug"
version == "1.0"
workdir == <<"work">>
\* --prefixdir is not given: the empty text stands for None
prefixdir == <<>>
nproc == <<"4">>

ReleaseSources == {"tarball", "tarball_nohash", "git", "git_notag"}

ReleaseSource(kind) ==
    IF kind = "tarball"
    THEN [type |-> "tarball", source |-> <<"https:", "", "host", "plug-1.0.tar.gz">>,
          hash |-> <<"sha256", "genuine">>]
    ELSE IF kind = "tarball_nohash"
    THEN [type |-> "tarball", source |-> <<"https:", "", "host", "plug-1.0.tar.gz">>]
    ELSE IF kind = "git"
    THEN [type |-> "git", source |-> <<"https:", "", "host", "plug.git">>, tag |-> "r1"]
    ELSE [type |-> "git", source |-> <<"https:", "", "host", "plug.git">>]

ArtifactRuleSets ==
    {"absent", "musl_only", "two_rules"}

ReleaseArtifacts(kind) ==
    IF kind = "absent" THEN <<>>
    ELSE IF kind = "musl_only"
    THEN <<Rule(<<"linux", "x86_64", "musl">>, <<<<"{WORKDIR}", "plugin.so">>>>)>>
    ELSE <<Rule(Linux, <<<<"{WORKDIR}", "plugin.so">>, <<"{PREFIXDIR}", "plugin.h">>>>),
           Rule(AnyPlatform, <<<<"{WORKDIR}", "plugin.dylib">>>>)>>

\* the release of the requested version
Release(toplist, source, artifact_rules) ==
    ReleaseSource(source) @@
    [version |-> version,
     dependencies |-> <<Rule(<<"[">>, <<Z1>>), Rule(AnyPlatform, toplist)>>,
     build |-> <<Rule(Linux,
                      [env |-> <<[k |-> "CFLAGS", v |-> <<"-g">>]>>,
                       commands |-> <<StrCmd(<<"meson", "setup">>),
                                      DictCmdCwd(<<"ninja">>, <<"{WORKDIR}", "build">>),
                                      StrCmd(<<"ninja", "install">>)>>])>>] @@
    (IF artifact_rules = "absent" THEN <<>>
     ELSE [artifacts |-> ReleaseArtifacts(artifact_rules)])

PluginConfig(release) ==
    [releases |-> <<release>>,
     env |-> <<Rule(AnyPlatform, <<[k |-> "V", v |-> <<"1">>]>>),
               Rule(Linux, <<[k |-> "V", v |-> <<"2">>]>>)>>]

Musl == PLATFORMS[2]
Glibc == PLATFORMS[1]
DarwinX86 == PLATFORMS[3]

EmptyFS == [p \in {} |-> "none"]

\* archives and clones left in the working directory by an earlier run
CachedFS ==
    {EmptyFS,
     (<<"work", "a-1.tar.gz">> :> "genuine") @@ (<<"work", "b">> :> "dir"),
     (<<"work", "a-1.tar.gz">> :> "corrupt") @@ (<<"work", "plug-1.0.tar.gz">> :> "genuine"),
     (<<"work", "plug-1.0.tar.gz">> :> "corrupt") @@ (<<"work", "plug">> :> "dir")}

TopLists == {<<>>, <<A1>>, <<A1, B1>>, <<B1, A2, A1>>, <<Z1, A1>>, <<B9>>}

-----------------------------------------------------------------------------
(* build.py: helpers shared by the actions *)

\* the release PluginBuilder.__init__ found for the requested version
release_config ==
    config.releases[CHOOSE i \in 1..Len(config.releases) :
                       /\ config.releases[i].version = version
                       /\ \A j \in 1..(i - 1) : config.releases[j].version # version]

\* PluginBuilder.env after __init__
PluginBuilderEnv(cfg, plat) ==
    LET e == DictSet(get_default_env(plat, workdir, prefixdir), "NPROC", nproc)
    IN  IF "env" \in DOMAIN cfg
        THEN DictUpdate(e, merge_global_env(cfg.env, plat))
        ELSE e

\* DependencyBuilder.__init__; the set object is the one passed in, or a new
\* one (allocated by the caller of this operator) when None is passed
DependencyBuilder(wd, parent_config, set_id) ==
    LET e == DictSet(get_default_env(platform, wd, prefixdir), "NPROC", nproc)
    IN  [workdir |-> wd,
         parent_config |-> parent_config,
         building_deps |-> set_id,
         env |-> IF parent_config = "config" /\ "env" \in DOMAIN config
                 THEN DictUpdate(e, merge_global_env(config.env, platform))
                 ELSE e]

\* the building_deps argument _build_sub_dependencies passes for a
\* sub-dependency's builder: 0 stands for None
SubBuilderSetFresh(self_set) == 0

SubBuilderSet(self_set) == self_set

dep_key(dep_name, dep_version) == dep_name \o "@" \o dep_version

\* the orders in which iterating a Python set of strings may yield its members
IterationOrders(s) ==
    {o \in [1..Cardinality(s) -> s] : \A i, j \in 1..Cardinality(s) : i # j => o[i] # o[j]}

\* " -> ".join(self.building_deps) + f" -> {dep_key}", as the sequence of keys
dependency_chain_unterminated(order, key) == order

dependency_chain(order, key) == order \o <<key>>

\* `result.returncode != 0`
command_failed_ignored(returncode) == FALSE

command_failed(returncode) == returncode # 0

\* building_deps.discard(dep_key) of the finally clause
discard_never(s, key) == s

discard(s, key) == s \ {key}

Frame(self, id, parent, slot, dep, dep_config) ==
    [fn |-> "build_dependency", self |-> self, id |-> id, parent |-> parent, slot |-> slot,
     dep_name |-> dep.name, dep_version |-> dep.version, dep_config |-> dep_config,
     dep_key |-> dep_key(dep.name, dep.version),
     pc |-> "check", i |-> 0, ci |-> 0, current_cwd |-> <<>>, build_env |-> <<>>,
     entry |-> sets[builders[self].building_deps]]

top == stack[Len(stack)]

Pop == SubSeq(stack, 1, Len(stack) - 1)

SetTop(f) == [stack EXCEPT ![Len(stack)] = f]

\* a lookup that falls back on some entry of the versions table
version_config_fallback(f) ==
    IF f.dep_version \in DOMAIN f.dep_config.versions
    THEN f.dep_config.versions[f.dep_version]
    ELSE f.dep_config.versions[CHOOSE v \in DOMAIN f.dep_config.versions : TRUE]

\* dep_config['versions'].get(dep_version)
version_config(f) ==
    IF f.dep_version \in DOMAIN f.dep_config.versions
    THEN f.dep_config.versions[f.dep_version]
    ELSE None

EmptyDict == [n \in {} |-> None]

\* what _build_dependencies looks dependency names up in
full_deps_config ==
    IF "dependencies" \in DOMAIN config /\ ~Falsy(config.dependencies)
    THEN config.dependencies
    ELSE IF IsNone(deps_yml) THEN EmptyDict ELSE deps_yml

\* what _build_sub_dependencies looks sub-dependency names up in
full_sub_deps_config == IF IsNone(deps_yml) THEN EmptyDict ELSE deps_yml

top_dep_list ==
    LET deps_config == IF "dependencies" \in DOMAIN release_config
                       THEN release_config.dependencies ELSE <<>>
    IN  IF Empty(deps_config) THEN <<>> ELSE get_dependencies(deps_config, platform)

sub_dep_list(vc) ==
    LET sub_deps_config == IF "dependencies" \in DOMAIN vc THEN vc.dependencies ELSE <<>>
    IN  IF Empty(sub_deps_config) THEN <<>> ELSE get_dependencies(sub_deps_config, platform)

\* dest_path.parent.mkdir(parents=True, exist_ok=True), and the directories a
\* clone creates above its target
WithParents(files, path) ==
    LET missing == {SubSeq(path, 1, n) : n \in 1..(Len(path) - 1)} \ DOMAIN files
    IN  files @@ [d \in missing |-> "dir"]

\* Source acquisition of build_dependency and of _download_source for the
\* configuration cfg of node `name` in directory wd.  dl is what the download
\* does when it is made ("fail" or the content it leaves), clone_ok and
\* checkout_ok whether the git invocations succeed when they are made.
\* a verification of freshly downloaded archives only
must_verify_downloaded(cfg, exists) == "hash" \in DOMAIN cfg /\ ~exists

\* `if 'hash' in version_config`, which follows the `if not dest_path.exists()`
\* statement and does not depend on it
must_verify(cfg, exists) == "hash" \in DOMAIN cfg

acquire_source(cfg, wd, name, call, node, dl, clone_ok, checkout_ok) ==
    LET ev(op, ok) == [op |-> op, call |-> call, node |-> node, ok |-> ok]
    IN
    IF cfg.type = "tarball"
    THEN LET filename == Last(cfg.source)
             dest_path == wd \o <<filename>>
             exists == dest_path \in DOMAIN fs
             fs1 == IF exists THEN fs
                    ELSE IF dl = "fail" THEN WithParents(fs, dest_path)
                    ELSE WithParents(fs, dest_path) @@ (dest_path :> dl)
             ev1 == IF exists THEN <<>> ELSE <<ev("download", dl # "fail")>>
         IN  IF ~exists /\ dl = "fail"
             THEN [error |-> "download", fs |-> fs1, events |-> ev1, filename |-> <<>>]
             ELSE IF must_verify(cfg, exists)
                  THEN IF ~verify_hash(fs1[dest_path], cfg.hash)
                       THEN [error |-> "hash", fs |-> fs1,
                             events |-> ev1 \o <<ev("verify", FALSE)>>, filename |-> <<>>]
                       ELSE [error |-> "none", fs |-> fs1,
                             events |-> ev1 \o <<ev("verify", TRUE)>>,
                             filename |-> <<filename>>]
                  ELSE [error |-> "none", fs |-> fs1, events |-> ev1,
                        filename |-> <<filename>>]
    ELSE IF cfg.type = "git"
    THEN LET repo_dir == wd \o <<name>>
         IN  IF repo_dir \notin DOMAIN fs
             THEN IF ~clone_ok
                  THEN [error |-> "git", fs |-> fs, events |-> <<ev("clone", FALSE)>>,
                        filename |-> <<>>]
                  ELSE LET fs1 == WithParents(fs, repo_dir) @@ (repo_dir :> "dir")
                       IN  IF "tag" \in DOMAIN cfg
                           THEN [error |-> IF checkout_ok THEN "none" ELSE "git",
                                 fs |-> fs1,
                                 events |-> <<ev("clone", TRUE), ev("checkout", checkout_ok)>>,
                                 filename |-> <<>>]
                           ELSE [error |-> "none", fs |-> fs1,
                                 events |-> <<ev("clone", TRUE)>>, filename |-> <<>>]
             ELSE [error |-> "none", fs |-> fs, events |-> <<>>, filename |-> <<>>]
    ELSE [error |-> "config", fs |-> fs, events |-> <<>>, filename |-> <<>>]

\* the environment _execute_build hands to its commands
RECURSIVE substitute_all(_, _)
substitute_all(env, self_env) ==
    IF env = <<>> THEN <<>>
    ELSE <<[k |-> Head(env).k, v |-> substitute_vars(Head(env).v, self_env)]>>
         \o substitute_all(Tail(env), self_env)

\* the assignment without accumulation
accumulate_overwrite(build_env, key, value) == DictSet(build_env, key, value)

accumulate(build_env, key, value) ==
    IF DictHas(build_env, key)
    THEN LET existing_value == DictGet(build_env, key)
         IN  IF existing_value # <<>> /\ value # <<>>
             THEN DictSet(build_env, key, existing_value \o <<" ">> \o value)
             ELSE DictSet(build_env, key, IF value # <<>> THEN value ELSE existing_value)
    ELSE DictSet(build_env, key, value)

RECURSIVE accumulate_all(_, _, _)
accumulate_all(build_env, env, self_env) ==
    IF env = <<>> THEN build_env
    ELSE accumulate_all(
             accumulate(build_env, Head(env).k, substitute_vars(Head(env).v, self_env)),
             Tail(env), self_env)

execute_build_env(self_env, build_config) ==
    LET base == DictUpdate(os_environ, substitute_all(self_env, self_env))
    IN  IF "env" \in DOMAIN build_config
        THEN accumulate_all(base, build_config.env, self_env)
        ELSE base

commands_of(build_config) ==
    IF "commands" \in DOMAIN build_config THEN build_config.commands ELSE <<>>

\* the release's build rule taken from the first pattern when none matches
plugin_build_config_any ==
    LET build_config == get_build_config(release_config.build, platform)
    IN  IF Falsy(build_config) /\ release_config.build # <<>>
        THEN release_config.build[1].value
        ELSE build_config

\* the build rule _build_plugin selects
plugin_build_config == get_build_config(release_config.build, platform)

\* a selection that takes the first build rule when no pattern matches
frame_build_config_any(f) ==
    LET rules == IF f.fn = "build_dependency" THEN version_config(f).build
                 ELSE release_config.build
        build_config == get_build_config(rules, platform)
    IN  IF Falsy(build_config) /\ rules # <<>> THEN rules[1].value ELSE build_config

\* the build configuration whose commands the frame is executing
frame_build_config(f) ==
    IF f.fn = "build_dependency"
    THEN get_build_config(version_config(f).build, platform)
    ELSE plugin_build_config

-----------------------------------------------------------------------------
(* The state after PluginBuilder.__init__ *)

Constructed ==
    /\ plugin_env = PluginBuilderEnv(config, platform)
    /\ sets = <<>>
    /\ builders = <<>>
    /\ stack = <<>>
    /\ pc = "deps"
    /\ topIdx = 0
    /\ exc = "none"
    /\ chain = <<>>
    /\ artifacts = <<>>
    /\ calls = 0
    /\ log = <<>>
    /\ probe = <<>>

\* every catalogue over the dependency lists, under one plain release
InitGraph ==
    /\ platform \in {Musl, DarwinX86}
    /\ \E a1deps \in DepLists, b1deps \in DepLists, a2variant \in A2Variants :
          deps_yml = Catalogue(a1deps, b1deps, a2variant)
    /\ \E toplist \in {<<A1>>, <<B1, A1>>} :
          config = PluginConfig(Release(toplist, "tarball", "musl_only"))
    /\ fs = EmptyFS

\* every release and working directory, over one plain catalogue
InitRelease ==
    /\ platform \in {Musl, Glibc, DarwinX86}
    /\ deps_yml \in {Catalogue(<<B1>>, <<>>, "leaf"), None}
    /\ \E toplist \in TopLists, source \in ReleaseSources, rules \in ArtifactRuleSets :
          config = PluginConfig(Release(toplist, source, rules))
    /\ fs \in CachedFS

Init == (InitGraph \/ InitRelease) /\ Constructed

-----------------------------------------------------------------------------
(* PluginBuilder._build_dependencies *)

\* up to the construction of the DependencyBuilder all dependencies share
BuildDependenciesBegin ==
    /\ pc = "deps" /\ topIdx = 0
    /\ IF Empty(top_dep_list)
       THEN /\ pc' = "download"
            /\ UNCHANGED <<sets, builders, topIdx>>
       ELSE /\ sets' = Append(sets, {})
            /\ builders' = Append(builders,
                                  DependencyBuilder(workdir, "config", Len(sets) + 1))
            /\ topIdx' = 1
            /\ pc' = pc
    /\ UNCHANGED <<platform, config, deps_yml, fs, stack, plugin_env, exc, chain,
                   artifacts, calls, log, probe>>

\* one iteration of `for dep in dep_list`, up to the call of build_dependency
BuildDependenciesLoop ==
    /\ pc = "deps" /\ topIdx >= 1 /\ stack = <<>> /\ exc = "none"
    /\ IF topIdx > Len(top_dep_list)
       THEN /\ pc' = "download"
            /\ UNCHANGED <<stack, exc, calls, log>>
       ELSE LET dep == top_dep_list[topIdx]
            IN  IF dep.name \notin DOMAIN full_deps_config
                THEN /\ exc' = "config"
                     /\ pc' = "failed"
                     /\ UNCHANGED <<stack, calls, log>>
                ELSE /\ stack' = <<Frame(1, calls + 1, 0, topIdx, dep,
                                         full_deps_config[dep.name])>>
                     /\ calls' = calls + 1
                     /\ log' = Append(log, [op |-> "call", call |-> calls + 1,
                                            node |-> dep_key(dep.name, dep.version),
                                            parent |-> 0, slot |-> topIdx,
                                            dep |-> dep, workdir |-> workdir])
                     /\ UNCHANGED <<pc, exc>>
    /\ UNCHANGED <<platform, config, deps_yml, fs, sets, builders, topIdx, plugin_env,
                   chain, artifacts, probe>>

-----------------------------------------------------------------------------
(* DependencyBuilder.build_dependency *)

ExitEvent(f, ok) == [op |-> "exit", call |-> f.id, node |-> f.dep_key, ok |-> ok]

\* the cycle check and the insertion into building_deps
BeginDependency ==
    /\ stack # <<>> /\ exc = "none"
    /\ top.fn = "build_dependency" /\ top.pc = "check"
    /\ LET f == top
           set_id == builders[f.self].building_deps
       IN  IF f.dep_key \in sets[set_id]
           THEN /\ \E order \in IterationOrders(sets[set_id]) :
                      chain' = dependency_chain(order, f.dep_key)
                /\ exc' = "cycle"
                /\ stack' = Pop
                /\ pc' = IF Pop = <<>> THEN "failed" ELSE pc
                /\ log' = Append(log, ExitEvent(f, FALSE))
                /\ UNCHANGED sets
           ELSE /\ sets' = [sets EXCEPT ![set_id] = @ \cup {f.dep_key}]
                /\ stack' = SetTop([f EXCEPT !.pc = "try"])
                /\ UNCHANGED <<pc, exc, chain, log>>
    /\ UNCHANGED <<platform, config, deps_yml, fs, builders, topIdx, plugin_env,
                   artifacts, calls, probe>>

\* the lookup of the version's configuration
LookupVersion ==
    /\ stack # <<>> /\ exc = "none"
    /\ top.fn = "build_dependency" /\ top.pc = "try"
    /\ IF Falsy(version_config(top))
       THEN /\ exc' = "config"
            /\ UNCHANGED stack
       ELSE /\ stack' = SetTop([top EXCEPT !.pc = "sub_deps", !.i = 1])
            /\ UNCHANGED exc
    /\ UNCHANGED <<platform, config, deps_yml, fs, sets, builders, pc, topIdx, plugin_env,
                   chain, artifacts, calls, log, probe>>

\* _build_sub_dependencies: one iteration of `for sub_dep in sub_dep_list`, up
\* to the call of build_dependency, or the return when the list is exhausted
BuildSubDependencies ==
    /\ stack # <<>> /\ exc = "none"
    /\ top.fn = "build_dependency" /\ top.pc = "sub_deps"
    /\ LET f == top
           list == sub_dep_list(version_config(f))
       IN  IF Empty(list) \/ f.i > Len(list)
           THEN /\ stack' = SetTop([f EXCEPT !.pc = "source"])
                /\ UNCHANGED <<sets, builders, calls, log, exc>>
           ELSE LET sub_dep == list[f.i]
                IN  IF sub_dep.name \notin DOMAIN full_sub_deps_config
                    THEN /\ stack' = SetTop([f EXCEPT !.i = f.i + 1])
                         /\ UNCHANGED <<sets, builders, calls, log, exc>>
                    ELSE LET passed == SubBuilderSet(builders[f.self].building_deps)
                             set_id == IF passed = 0 THEN Len(sets) + 1 ELSE passed
                         IN  IF Len(stack) >= MaxDepth
                             THEN /\ exc' = "recursion"
                                  /\ UNCHANGED <<sets, builders, calls, stack, log>>
                             ELSE
                             /\ exc' = exc
                             /\ sets' = IF passed = 0 THEN Append(sets, {}) ELSE sets
                             /\ builders' = Append(builders,
                                    DependencyBuilder(
                                        builders[f.self].workdir \o <<sub_dep.name>>,
                                        builders[f.self].parent_config, set_id))
                             /\ calls' = calls + 1
                             /\ stack' = Append(stack,
                                    [Frame(f.self, calls + 1, f.id, f.i, sub_dep,
                                           full_sub_deps_config[sub_dep.name])
                                       EXCEPT !.self = Len(builders) + 1,
                                              !.entry = IF passed = 0 THEN {}
                                                        ELSE sets[passed]])
                             /\ log' = Append(log,
                                    [op |-> "call", call |-> calls + 1,
                                     node |-> dep_key(sub_dep.name, sub_dep.version),
                                     parent |-> f.id, slot |-> f.i, dep |-> sub_dep,
                                     workdir |-> builders[f.self].workdir
                                                 \o <<sub_dep.name>>])
    /\ UNCHANGED <<platform, config, deps_yml, fs, pc, topIdx, plugin_env, chain,
                   artifacts, probe>>

\* download and verification, or clone and checkout, of the node's source
AcquireSource ==
    /\ stack # <<>> /\ exc = "none"
    /\ top.fn = "build_dependency" /\ top.pc = "source"
    /\ \E dl \in DownloadContents \cup {"fail"}, clone_ok \in BOOLEAN, checkout_ok \in BOOLEAN :
          LET f == top
              self == builders[f.self]
              r == acquire_source(version_config(f), self.workdir, f.dep_name,
                                  f.id, f.dep_key, dl, clone_ok, checkout_ok)
          IN  /\ fs' = r.fs
              /\ log' = log \o r.events
              /\ IF r.error # "none"
                 THEN /\ exc' = r.error
                      /\ UNCHANGED <<stack, builders>>
                 ELSE /\ exc' = exc
                      /\ builders' = IF r.filename # <<>>
                                     THEN [builders EXCEPT ![f.self].env =
                                              DictSet(@, "DL_FILE_NAME", r.filename)]
                                     ELSE builders
                      /\ stack' = SetTop([f EXCEPT !.pc = "build"])
    /\ UNCHANGED <<platform, config, deps_yml, sets, pc, topIdx, plugin_env, chain,
                   artifacts, calls, probe>>

\* selection of the build rule; _execute_build up to its first command
ResolveBuild ==
    /\ stack # <<>> /\ exc = "none"
    /\ top.fn = "build_dependency" /\ top.pc = "build"
    /\ LET f == top
           build_config == frame_build_config(f)
       IN  IF Falsy(build_config) \/ commands_of(build_config) = <<>>
           THEN stack' = SetTop([f EXCEPT !.pc = "return"])
           ELSE stack' = SetTop([f EXCEPT
                    !.pc = "commands", !.ci = 1,
                    !.current_cwd = builders[f.self].workdir,
                    !.build_env = execute_build_env(builders[f.self].env, build_config)])
    /\ UNCHANGED <<platform, config, deps_yml, fs, sets, builders, pc, topIdx, plugin_env,
                   exc, chain, artifacts, calls, log, probe>>

\* a command without a cwd of its own runs in the node's working directory
update_cwd_not_kept(cmd_entry, current_cwd) ==
    IF cmd_entry.kind = "dict" /\ "cwd" \in DOMAIN cmd_entry
    THEN cmd_entry.cwd ELSE <<"{WORKDIR}">>

\* current_cwd after the `if isinstance(cmd_entry, dict)` statement
update_cwd(cmd_entry, current_cwd) ==
    IF cmd_entry.kind = "dict" /\ "cwd" \in DOMAIN cmd_entry
    THEN cmd_entry.cwd ELSE current_cwd

\* _execute_build: one iteration of `for cmd_entry in commands`
RunCommand ==
    /\ stack # <<>> /\ exc = "none"
    /\ top.pc = "commands"
    /\ \E returncode \in {0, 1} :
          LET f == top
              self_env == builders[f.self].env
              commands == commands_of(frame_build_config(f))
              cmd_entry == commands[f.ci]
              current_cwd == update_cwd(cmd_entry, f.current_cwd)
              cmd == substitute_vars(cmd_entry.cmd, self_env)
              cwd == substitute_vars(current_cwd, self_env)
          IN  /\ log' = Append(log, [op |-> "cmd", call |-> f.id, node |-> f.dep_key,
                                     ok |-> returncode = 0, cmd |-> cmd, cwd |-> cwd,
                                     env |-> f.build_env])
              /\ IF command_failed(returncode)
                 THEN /\ exc' = "command"
                      /\ stack' = SetTop([f EXCEPT !.current_cwd = current_cwd])
                 ELSE /\ exc' = exc
                      /\ stack' = SetTop([f EXCEPT
                             !.current_cwd = current_cwd,
                             !.ci = f.ci + 1,
                             !.pc = IF f.ci = Len(commands) THEN "return" ELSE "commands"])
    /\ UNCHANGED <<platform, config, deps_yml, fs, sets, builders, pc, topIdx, plugin_env,
                   chain, artifacts, calls, probe>>

\* a call returns: the finally clause of build_dependency, and the caller's
\* loop moves on
Return ==
    /\ stack # <<>> /\ exc = "none"
    /\ top.pc = "return"
    /\ LET f == top
           set_id == builders[f.self].building_deps
       IN  IF f.fn = "build_dependency"
           THEN /\ sets' = [sets EXCEPT ![set_id] = discard(@, f.dep_key)]
                /\ log' = Append(log, ExitEvent(f, TRUE))
                /\ IF Pop = <<>>
                   THEN /\ stack' = <<>>
                        /\ topIdx' = topIdx + 1
                   ELSE /\ stack' = [Pop EXCEPT ![Len(Pop)].i = @ + 1]
                        /\ topIdx' = topIdx
                /\ pc' = pc
           ELSE /\ stack' = Pop
                /\ pc' = "collect"
                /\ UNCHANGED <<sets, topIdx, log>>
    /\ UNCHANGED <<platform, config, deps_yml, fs, builders, plugin_env, exc, chain,
                   artifacts, calls, probe>>

\* an exception leaves a call: the finally clause of build_dependency; main
\* catches what leaves the last call
Unwind ==
    /\ stack # <<>> /\ exc # "none"
    /\ LET f == top
           set_id == builders[f.self].building_deps
       IN  /\ IF f.fn = "build_dependency"
              THEN /\ sets' = [sets EXCEPT ![set_id] = discard(@, f.dep_key)]
                   /\ log' = Append(log, ExitEvent(f, FALSE))
              ELSE UNCHANGED <<sets, log>>
           /\ stack' = Pop
           /\ pc' = IF Pop = <<>> THEN "failed" ELSE pc
    /\ UNCHANGED <<platform, config, deps_yml, fs, builders, topIdx, plugin_env, exc,
                   chain, artifacts, calls, probe>>

-----------------------------------------------------------------------------
(* PluginBuilder *)

\* _download_source
PluginDownloadSource ==
    /\ pc = "download" /\ stack = <<>> /\ exc = "none"
    /\ \E dl \in DownloadContents \cup {"fail"}, clone_ok \in BOOLEAN, checkout_ok \in BOOLEAN :
          LET r == acquire_source(release_config, workdir, plugin_name, 0, "plugin",
                                  dl, clone_ok, checkout_ok)
          IN  /\ fs' = r.fs
              /\ log' = log \o r.events
              /\ IF r.error # "none"
                 THEN /\ exc' = r.error
                      /\ pc' = "failed"
                      /\ UNCHANGED plugin_env
                 ELSE /\ exc' = exc
                      /\ pc' = "build"
                      /\ plugin_env' = IF r.filename # <<>>
                                       THEN DictSet(plugin_env, "DL_FILE_NAME", r.filename)
                                       ELSE plugin_env
    /\ UNCHANGED <<platform, config, deps_yml, sets, builders, stack, topIdx, chain,
                   artifacts, calls, probe>>

\* _build_plugin, up to the first command of _execute_build
BuildPlugin ==
    /\ pc = "build" /\ stack = <<>> /\ exc = "none"
    /\ LET build_config == plugin_build_config
       IN  IF Falsy(build_config)
           THEN /\ exc' = "config"
                /\ pc' = "failed"
                /\ UNCHANGED <<sets, builders, stack>>
           ELSE LET dep_builder ==
                        [DependencyBuilder(workdir, "None", Len(sets) + 1)
                            EXCEPT !.env = plugin_env]
                IN  /\ sets' = Append(sets, {})
                    /\ builders' = Append(builders, dep_builder)
                    /\ exc' = exc
                    /\ IF commands_of(build_config) = <<>>
                       THEN /\ pc' = "collect"
                            /\ UNCHANGED stack
                       ELSE /\ pc' = "executing"
                            /\ stack' = <<[fn |-> "_execute_build",
                                           self |-> Len(builders) + 1, id |-> 0,
                                           parent |-> 0, slot |-> 0,
                                           dep_name |-> plugin_name, dep_version |-> version,
                                           dep_config |-> None, dep_key |-> "plugin",
                                           pc |-> "commands", i |-> 0, ci |-> 1,
                                           current_cwd |-> workdir,
                                           build_env |-> execute_build_env(plugin_env,
                                                                           build_config),
                                           entry |-> {}]>>
    /\ UNCHANGED <<platform, config, deps_yml, fs, topIdx, plugin_env, chain, artifacts,
                   calls, log, probe>>

\* the artifact paths of the release for the platform, variables substituted
artifact_paths ==
    LET artifacts_config == IF "artifacts" \in DOMAIN release_config
                            THEN release_config.artifacts ELSE <<>>
        artifact_patterns == IF Empty(artifacts_config) THEN <<>>
                             ELSE get_artifacts(artifacts_config, platform)
    IN  [n \in 1..Len(artifact_patterns) |->
            substitute_vars(artifact_patterns[n], plugin_env)]

all_exist_unchecked(paths, disk) == TRUE

\* whether the `for pattern in artifact_patterns` loop finds every path
all_exist(paths, disk) == \A n \in 1..Len(paths) : paths[n] \in DOMAIN disk

\* _collect_artifacts and the return of build; `produced` is what the build
\* commands have left on disk
CollectArtifacts ==
    /\ pc = "collect" /\ stack = <<>> /\ exc = "none"
    /\ \E produced \in SUBSET SeqToSet(artifact_paths) :
          LET disk == fs @@ [path \in produced |-> "built"]
          IN  /\ fs' = disk
              /\ IF all_exist(artifact_paths, disk)
                 THEN /\ artifacts' = artifact_paths
                      /\ pc' = "done"
                      /\ exc' = exc
                 ELSE /\ exc' = "artifact"
                      /\ pc' = "failed"
                      /\ UNCHANGED artifacts
    /\ UNCHANGED <<platform, config, deps_yml, sets, builders, stack, topIdx, plugin_env,
                   chain, calls, log, probe>>

Next ==
    \/ BuildDependenciesBegin
    \/ BuildDependenciesLoop
    \/ BeginDependency
    \/ LookupVersion
    \/ BuildSubDependencies
    \/ AcquireSource
    \/ ResolveBuild
    \/ RunCommand
    \/ Return
    \/ Unwind
    \/ PluginDownloadSource
    \/ BuildPlugin
    \/ CollectArtifacts

Spec == Init /\ [][Next]_vars

\* main has returned the artifacts, or has caught an exception and exited
Terminated == pc \in {"done", "failed"}

\* build.py runs as one thread of one process, and every command, download
\* and clone returns: while the run has not ended it takes its next step.
\* This is the weak fairness of Next, with the end of the run in the place of
\* the states in which Next is not enabled.
SpecTerminating == Spec /\ ([]<>Terminated \/ []<><<Next>>_vars)

-----------------------------------------------------------------------------
(* BuildConfigResolver on its own: the three selectors applied to rule sets  *)
(* with the same keys                                                      *)

Patterns == {AnyPlatform, Linux, <<"darwin", ".*">>, <<"linux", "x86_64", "musl">>,
             <<"linux">>, <<"x86_64">>, <<"[">>}

KeyLists ==
    {ks \in UNION {[1..n -> Patterns] : n \in 0..MaxRules} :
        \A n, m \in 1..Len(ks) : n # m => ks[n] # ks[m]}

\* the rule sets over the keys ks: a build section, an artifacts section and a
\* dependencies section, the value of each rule telling the rule
BuildRules(ks) == [n \in 1..Len(ks) |-> Rule(ks[n], [rule |-> n])]
ArtifactRules(ks) == [n \in 1..Len(ks) |-> Rule(ks[n], <<[rule |-> n]>>)]
DependencyRules(ks) == [n \in 1..Len(ks) |-> Rule(ks[n], <<[name |-> "dep", version |-> n]>>)]

InitSelect ==
    /\ platform \in SeqToSet(PLATFORMS)
    /\ \E ks \in KeyLists :
          probe = [keys |-> ks, done |-> {}, build |-> None, artifacts |-> <<>>,
                   dependencies |-> <<>>]
    /\ config = PluginConfig(Release(<<>>, "tarball", "absent"))
    /\ deps_yml = None
    /\ fs = EmptyFS
    /\ plugin_env = <<>>
    /\ sets = <<>>
    /\ builders = <<>>
    /\ stack = <<>>
    /\ pc = "select"
    /\ topIdx = 0
    /\ exc = "none"
    /\ chain = <<>>
    /\ artifacts = <<>>
    /\ calls = 0
    /\ log = <<>>

RunUnchanged ==
    UNCHANGED <<platform, config, deps_yml, fs, sets, builders, stack, pc, topIdx,
                plugin_env, exc, chain, artifacts, calls, log>>

SelectBuildConfig ==
    /\ pc = "select" /\ "build" \notin probe.done
    /\ probe' = [probe EXCEPT !.done = @ \cup {"build"},
                              !.build = get_build_config(BuildRules(probe.keys), platform)]
    /\ RunUnchanged

SelectArtifacts ==
    /\ pc = "select" /\ "artifacts" \notin probe.done
    /\ probe' = [probe EXCEPT !.done = @ \cup {"artifacts"},
                              !.artifacts = get_artifacts(ArtifactRules(probe.keys), platform)]
    /\ RunUnchanged

SelectDependencies ==
    /\ pc = "select" /\ "dependencies" \notin probe.done
    /\ probe' = [probe EXCEPT !.done = @ \cup {"dependencies"},
                              !.dependencies =
                                  get_dependencies(DependencyRules(probe.keys), platform)]
    /\ RunUnchanged

NextSelect == SelectBuildConfig \/ SelectArtifacts \/ SelectDependencies

SpecSelect == InitSelect /\ [][NextSelect]_vars

-----------------------------------------------------------------------------
(* EnvironmentManager and the env merge of _execute_build on their own *)

\* no build is running: the state of every variable but platform and probe
NoRun ==
    /\ config = PluginConfig(Release(<<>>, "tarball", "absent"))
    /\ deps_yml = None
    /\ fs = EmptyFS
    /\ plugin_env = <<>>
    /\ sets = <<>>
    /\ builders = <<>>
    /\ stack = <<>>
    /\ pc = "apply"
    /\ topIdx = 0
    /\ exc = "none"
    /\ chain = <<>>
    /\ artifacts = <<>>
    /\ calls = 0
    /\ log = <<>>

\* the ordered dicts with the keys of ks, in any order, and values of vals
Dicts(ks, vals) ==
    {d \in UNION {[1..n -> [k : ks, v : vals]] : n \in 0..Cardinality(ks)} :
        \A n, m \in 1..Len(d) : n # m => d[n].k # d[m].k}

MergePatterns == {AnyPlatform, Linux, <<"darwin", ".*">>, <<"[">>}

MergeKeyLists ==
    {ks \in UNION {[1..n -> MergePatterns] : n \in 0..MaxRules} :
        \A n, m \in 1..Len(ks) : n # m => ks[n] # ks[m]}

\* the env_vars a pattern of the global env section may carry
EnvVars ==
    {<<>>, <<[k |-> "V", v |-> <<"1">>]>>, <<[k |-> "V", v |-> <<"2">>]>>,
     <<[k |-> "W", v |-> <<"3">>], [k |-> "V", v |-> <<"4">>]>>}

InitMerge ==
    /\ platform \in SeqToSet(PLATFORMS)
    /\ \E ks \in MergeKeyLists :
          \E vs \in [1..Len(ks) -> EnvVars] :
              probe = [config_env |-> [n \in 1..Len(ks) |-> Rule(ks[n], vs[n])],
                       done |-> FALSE, merged_env |-> <<>>]
    /\ NoRun

ApplyMergeGlobalEnv ==
    /\ pc = "apply" /\ ~probe.done
    /\ probe' = [probe EXCEPT !.done = TRUE,
                              !.merged_env = merge_global_env(probe.config_env, platform)]
    /\ RunUnchanged

SpecMerge == InitMerge /\ [][ApplyMergeGlobalEnv]_vars

\* the merge of a build step's env fragment into the process environment
BaseValues == {<<>>, <<"-O2">>}
FragmentValues == {<<>>, <<"-g">>, <<"{WORKDIR}", "-g">>}

InitAccumulate ==
    /\ platform = Musl
    /\ \E build_env \in Dicts({"FLAGS", "OTHER"}, BaseValues),
          env \in Dicts({"FLAGS", "OTHER"}, FragmentValues) :
          probe = [build_env |-> build_env, env |-> env,
                   self_env |-> <<[k |-> "WORKDIR", v |-> workdir]>>,
                   done |-> FALSE, result |-> <<>>]
    /\ NoRun

ApplyAccumulate ==
    /\ pc = "apply" /\ ~probe.done
    /\ probe' = [probe EXCEPT !.done = TRUE,
                              !.result = accumulate_all(probe.build_env, probe.env,
                                                        probe.self_env)]
    /\ RunUnchanged

SpecAccumulate == InitAccumulate /\ [][ApplyAccumulate]_vars

\* substitute_vars on its own
TextTokens == {"{A}", "{B}", "/", "x"}
Texts == UNION {[1..n -> TextTokens] : n \in 0..MaxText}
SubstitutionValues == {<<>>, <<"x">>, <<"{A}">>, <<"{B}">>}

InitSubstitute ==
    /\ platform = Musl
    /\ \E text \in Texts, env \in Dicts({"A", "B"}, SubstitutionValues) :
          probe = [text |-> text, env |-> env, done |-> FALSE, result |-> <<>>]
    /\ NoRun

ApplySubstituteVars ==
    /\ pc = "apply" /\ ~probe.done
    /\ probe' = [probe EXCEPT !.done = TRUE,
                              !.result = substitute_vars(probe.text, probe.env)]
    /\ RunUnchanged

SpecSubstitute == InitSubstitute /\ [][ApplySubstituteVars]_vars

-----------------------------------------------------------------------------
(* utils.py: CrossCompilingToolchainManager.  A toolchain description is   *)
(* the entry of toolchains.yml for the platform, None when there is none;   *)
(* an empty text stands for a key that is absent or empty.                  *)

\* key.upper() for the binaries the descriptions of the model name
upper(key) == IF key = "cc" THEN "CC" ELSE IF key = "ar" THEN "AR" ELSE key

RECURSIVE binaries_env(_, _)
binaries_env(binaries, env) ==
    IF binaries = <<>> THEN env
    ELSE binaries_env(Tail(binaries),
                      DictSet(env, upper(Head(binaries).k), Head(binaries).v))

get_toolchain_env_vars(toolchain) ==
    IF IsNone(toolchain) THEN <<>>
    ELSE LET env == binaries_env(toolchain.binaries, <<>>)
             sysroot == toolchain.sysroot
         IN  IF sysroot # <<>>
             THEN DictUpdate(env,
                      <<[k |-> "SYSROOT", v |-> sysroot],
                        [k |-> "CFLAGS", v |-> <<"--sysroot=">> \o sysroot],
                        [k |-> "CXXFLAGS", v |-> <<"--sysroot=">> \o sysroot],
                        [k |-> "LDFLAGS", v |-> <<"--sysroot=">> \o sysroot]>>)
             ELSE env

get_toolchain_bin_path(toolchain) ==
    IF IsNone(toolchain) THEN <<>> ELSE toolchain.bin_path

\* one iteration of `for key, value in toolchain_env.items()`
update_variable(build_env, key, value) ==
    IF DictHas(build_env, key)
    THEN IF value # <<>> /\ DictGet(build_env, key) # <<>>
         THEN DictSet(build_env, key, DictGet(build_env, key) \o <<" ">> \o value)
         ELSE build_env
    ELSE DictSet(build_env, key, value)

RECURSIVE update_variables(_, _)
update_variables(build_env, toolchain_env) ==
    IF toolchain_env = <<>> THEN build_env
    ELSE update_variables(
             update_variable(build_env, Head(toolchain_env).k, Head(toolchain_env).v),
             Tail(toolchain_env))

update_build_env(build_env, toolchain) ==
    LET merged == update_variables(build_env, get_toolchain_env_vars(toolchain))
        bin_path == get_toolchain_bin_path(toolchain)
    IN  IF bin_path # <<>>
        THEN IF DictHas(merged, "PATH")
             THEN DictSet(merged, "PATH", bin_path \o <<":">> \o DictGet(merged, "PATH"))
             ELSE DictSet(merged, "PATH", bin_path)
        ELSE merged

Toolchains ==
    {None} \cup
    [binaries : Dicts({"cc"}, {<<>>, <<"musl-gcc">>}),
     sysroot : {<<>>, <<"x-tools", "sysroot">>},
     bin_path : {<<>>, <<"x-tools", "bin">>}]

InitToolchain ==
    /\ platform = Musl
    /\ \E build_env \in Dicts({"CC", "CFLAGS", "PATH"}, {<<>>, <<"old">>}),
          toolchain \in Toolchains :
          probe = [build_env |-> build_env, toolchain |-> toolchain,
                   done |-> FALSE, result |-> <<>>]
    /\ NoRun

ApplyUpdateBuildEnv ==
    /\ pc = "apply" /\ ~probe.done
    /\ probe' = [probe EXCEPT !.done = TRUE,
                              !.result = update_build_env(probe.build_env, probe.toolchain)]
    /\ RunUnchanged

SpecToolchain == InitToolchain /\ [][ApplyUpdateBuildEnv]_vars

-----------------------------------------------------------------------------
(* get_default_env under every process environment *)

\* the entries an ambient PKG_CONFIG_PATH is made of
AmbientEntries == {<<"usr", "local", "lib", "pkgconfig">>,
                   <<"sr", "usr", "lib", "pkgconfig">>,
                   <<"opt", "pc">>}

\* the values of an ambient PKG_CONFIG_PATH: lists that hold no entry twice
AmbientPaths ==
    {join_paths(entries) :
        entries \in {list \in UNION {[1..n -> AmbientEntries] : n \in 1..MaxAmbient} :
                        \A n, m \in 1..Len(list) : n # m => list[n] # list[m]}}

Environs ==
    {<<>>} \cup Dicts({"SYSROOT"}, {<<"sr">>})
           \cup Dicts({"PKG_CONFIG_PATH"}, AmbientPaths)
           \cup Dicts({"SYSROOT", "PKG_CONFIG_PATH"}, {<<"sr">>} \cup AmbientPaths)

InitDefaultEnv ==
    /\ platform \in {Musl, DarwinX86, PLATFORMS[4]}
    /\ \E environ \in Environs, prefix \in {<<>>, <<"sr", "usr">>} :
          /\ DictHas(environ, "SYSROOT") => DictGet(environ, "SYSROOT") = <<"sr">>
          /\ DictHas(environ, "PKG_CONFIG_PATH")
                => DictGet(environ, "PKG_CONFIG_PATH") \in AmbientPaths
          /\ probe = [environ |-> environ, prefix |-> prefix,
                      done |-> FALSE, result |-> <<>>]
    /\ NoRun

ApplyGetDefaultEnv ==
    /\ pc = "apply" /\ ~probe.done
    /\ probe' = [probe EXCEPT !.done = TRUE,
                              !.result = get_default_env_in(probe.environ, platform,
                                                            workdir, probe.prefix)]
    /\ RunUnchanged

SpecDefaultEnv == InitDefaultEnv /\ [][ApplyGetDefaultEnv]_vars

-----------------------------------------------------------------------------
(* generate_matrix.py: generate_build_matrix, for one release of one plugin *)

\* PlatformMatcher.get_matching_platforms
get_matching_platforms(pattern) ==
    SelectSeq(PLATFORMS, LAMBDA p : match(pattern, p))

\* the `for pattern in build_config.keys()` loop
RECURSIVE supported_platforms(_)
supported_platforms(build_config) ==
    IF build_config = <<>> THEN {}
    ELSE SeqToSet(get_matching_platforms(Head(build_config).pattern))
           \cup supported_platforms(Tail(build_config))

\* the platform names in the order of sorted()
SortedPlatforms == <<PLATFORMS[4], PLATFORMS[3], PLATFORMS[1], PLATFORMS[2]>>

generate_build_matrix(release) ==
    LET build_config == IF "build" \in DOMAIN release THEN release.build ELSE <<>>
        supported == SelectSeq(SortedPlatforms,
                               LAMBDA p : p \in supported_platforms(build_config))
    IN  [n \in 1..Len(supported) |->
            [plugin |-> plugin_name, version |-> release.version,
             platform |-> supported[n]]]

\* a build section: each pattern with its commands, or with nothing (the YAML
\* key has no value)
BuildSections ==
    UNION {{[n \in 1..Len(ks) |-> Rule(ks[n], values[n])] :
               values \in [1..Len(ks) -> {None, [commands |-> <<StrCmd(<<"make">>)>>]}]} :
           ks \in KeyLists}

InitMatrix ==
    /\ platform \in SeqToSet(PLATFORMS)
    /\ \E build \in BuildSections :
          probe = [release |-> [version |-> version, build |-> build],
                   done |-> FALSE, matrix |-> <<>>, built |-> "no"]
    /\ NoRun

GenerateBuildMatrix ==
    /\ pc = "apply" /\ ~probe.done
    /\ probe' = [probe EXCEPT !.done = TRUE, !.matrix = generate_build_matrix(probe.release)]
    /\ RunUnchanged

\* the build job of the matrix entry for the platform: _build_plugin up to
\* the check of the selected rule
BuildMatrixEntry ==
    /\ pc = "apply" /\ probe.done /\ probe.built = "no"
    /\ \E n \in 1..Len(probe.matrix) : probe.matrix[n].platform = platform
    /\ probe' = [probe EXCEPT !.built =
                    IF Falsy(get_build_config(probe.release.build, platform))
                    THEN "raised" ELSE "selected"]
    /\ RunUnchanged

SpecMatrix == InitMatrix /\ [][GenerateBuildMatrix \/ BuildMatrixEntry]_vars

-----------------------------------------------------------------------------
(* generate_release_matrix.py *)

\* the (plugin, version, platform) keys of the records, in the order of
\* Python's tuple comparison
KeyOrder == << <<"bm3d", "r9", "darwin-x86_64">>,
               <<"bm3d", "r9", "linux-x86_64-glibc">> >>

ReleaseKeys == SeqToSet(KeyOrder)

\* (record["plugin"], record["version"], record["platform"])
record_key(record) == <<record.plugin, record.version, record.platform>>

\* record.get("status", "")
record_status(record) ==
    IF "status" \in DOMAIN record THEN record.status ELSE ""

\* item.get("status") == "success", None for a missing status
succeeded(item) == "status" \in DOMAIN item /\ item.status = "success"

RECURSIVE build_status_of(_)
build_status_of(build_records) ==
    IF build_records = <<>> THEN <<>>
    ELSE LET record == Last(build_records)
         IN  DictSet(build_status_of(SubSeq(build_records, 1, Len(build_records) - 1)),
                     record_key(record), record_status(record))

\* tests_by_key[key], the empty list for a key that setdefault never made
tests_of(test_records, key) ==
    SelectSeq(test_records, LAMBDA record : record_key(record) = key)

test_required_keys_of(base_test_entries) ==
    {record_key(base_test_entries[n]) : n \in 1..Len(base_test_entries)}

all_succeeded_first_only(entries) == succeeded(entries[1])

all_succeeded(entries) ==
    \A n \in 1..Len(entries) : succeeded(entries[n])

test_pass_keys_of(test_records) ==
    {key \in {record_key(test_records[n]) : n \in 1..Len(test_records)} :
        LET entries == tests_of(test_records, key)
        IN  ~Empty(entries) /\ all_succeeded(entries)}

RECURSIVE release_candidates_of(_, _, _)
release_candidates_of(build_status, test_required_keys, test_pass_keys) ==
    IF build_status = <<>> THEN <<>>
    ELSE LET key == Head(build_status).k
             rest == release_candidates_of(Tail(build_status), test_required_keys,
                                           test_pass_keys)
         IN  IF Head(build_status).v # "success" THEN rest
             ELSE IF key \in test_required_keys /\ key \notin test_pass_keys THEN rest
             ELSE <<[plugin |-> key[1], version |-> key[2], platform |-> key[3]]>>
                    \o rest

\* sorted(release_candidates, key=...): a stable sort by the key
RECURSIVE sorted_from(_, _)
sorted_from(entries, n) ==
    IF n > Len(KeyOrder) THEN <<>>
    ELSE SelectSeq(entries, LAMBDA entry : record_key(entry) = KeyOrder[n])
           \o sorted_from(entries, n + 1)

release_matrix(build_records, test_records, base_test_entries) ==
    sorted_from(release_candidates_of(build_status_of(build_records),
                                      test_required_keys_of(base_test_entries),
                                      test_pass_keys_of(test_records)), 1)

KeyRecords == [plugin : {"bm3d"}, version : {"r9"},
               platform : {"darwin-x86_64", "linux-x86_64-glibc"}]

\* what record_build_result.py and record_test_result.py write, and a record
\* that lacks its status
StatusRecords ==
    [plugin : {"bm3d"}, version : {"r9"},
     platform : {"darwin-x86_64", "linux-x86_64-glibc"},
     status : {"success", "failure"}] \cup KeyRecords

\* one build job, and so one build record, for each entry of the build matrix
BuildRecordLists ==
    {records \in UNION {[1..n -> StatusRecords] : n \in 0..Len(KeyOrder)} :
        \A n, m \in 1..Len(records) :
            n # m => record_key(records[n]) # record_key(records[m])}

TestRecordLists == UNION {[1..n -> StatusRecords] : n \in 0..MaxTestRecords}

BaseTestMatrices ==
    {entries \in UNION {[1..n -> KeyRecords] : n \in 0..Len(KeyOrder)} :
        \A n, m \in 1..Len(entries) : n < m => entries[n] # entries[m]}

InitReleaseMatrix ==
    /\ platform = Glibc
    /\ \E build_records \in BuildRecordLists, test_records \in TestRecordLists,
          base_test_entries \in BaseTestMatrices :
          probe = [build_records |-> build_records, test_records |-> test_records,
                   base_test_entries |-> base_test_entries,
                   done |-> FALSE, result |-> <<>>]
    /\ NoRun

GenerateReleaseMatrix ==
    /\ pc = "apply" /\ ~probe.done
    /\ probe' = [probe EXCEPT !.done = TRUE,
                              !.result = release_matrix(probe.build_records,
                                                        probe.test_records,
                                                        probe.base_test_entries)]
    /\ RunUnchanged

SpecReleaseMatrix == InitReleaseMatrix /\ [][GenerateReleaseMatrix]_vars

-----------------------------------------------------------------------------
(* The dependency tree and the history, as the claims speak of them *)

\* the sub-dependencies of a node for the platform that the catalogue holds
Children(ref) ==
    IF ref.name \notin DOMAIN full_sub_deps_config THEN <<>>
    ELSE LET versions == full_sub_deps_config[ref.name].versions
         IN  IF ref.version \notin DOMAIN versions THEN <<>>
             ELSE SelectSeq(sub_dep_list(versions[ref.version]),
                            LAMBDA d : d.name \in DOMAIN full_sub_deps_config)

\* some path of the tree that starts at ref, after the keys of `path`, holds a
\* key twice
RECURSIVE RepeatsBelow(_, _)
RepeatsBelow(ref, path) ==
    LET key == dep_key(ref.name, ref.version)
    IN  \/ key \in path
        \/ \E n \in 1..Len(Children(ref)) : RepeatsBelow(Children(ref)[n], path \cup {key})

Events == 1..Len(log)

CallEventOf(c) == log[CHOOSE q \in Events : log[q].op = "call" /\ log[q].call = c]

\* the exits of the build_dependency calls made by _build_dependencies
RootExits == {p \in Events : log[p].op = "exit" /\ CallEventOf(log[p].call).parent = 0}

External == {"download", "verify", "clone", "checkout", "cmd"}

Processes == {"clone", "checkout", "cmd"}

\* no download, verification, git invocation or command has failed, and no
\* configuration error was raised
NoNodeFailed ==
    /\ exc # "config"
    /\ \A q \in Events : log[q].op \in External => log[q].ok

\* where call c enters and leaves the history (it has left when this is used)
CallPos(c) == CHOOSE q \in Events : log[q].op = "call" /\ log[q].call = c

ExitPos(c) == CHOOSE q \in Events : log[q].op = "exit" /\ log[q].call = c

\* the keys of the calls entered and not left before position p, oldest first
ActiveBefore(p) ==
    LET active == SelectSeq(SubSeq(log, 1, p - 1),
                            LAMBDA e : /\ e.op = "call"
                                       /\ ~\E r \in 1..(p - 1) :
                                             log[r].op = "exit" /\ log[r].call = e.call)
    IN  [n \in 1..Len(active) |-> active[n].node]

\* the list a version's 'dependencies' section declares for the platform: the
\* value of the first pattern in declared order that matches
DeclaredList(vc) ==
    IF "dependencies" \notin DOMAIN vc THEN <<>>
    ELSE LET rules == vc.dependencies
             matching == {n \in 1..Len(rules) : match(rules[n].pattern, platform)}
         IN  IF matching = {} THEN <<>>
             ELSE rules[CHOOSE n \in matching : \A m \in matching : n <= m].value

\* the declared list of a catalogued reference
DeclaredListOf(ref) ==
    IF ref.name \notin DOMAIN full_sub_deps_config THEN <<>>
    ELSE LET versions == full_sub_deps_config[ref.name].versions
         IN  IF ref.version \notin DOMAIN versions THEN <<>>
             ELSE DeclaredList(versions[ref.version])

ChainHoldsLastTwice ==
    /\ chain # <<>>
    /\ Cardinality({n \in 1..Len(chain) : chain[n] = Last(chain)}) = 2

-----------------------------------------------------------------------------
(* C1 *)

\* C1, as claimed: when a key repeats along a path of the tree below a root,
\* build_dependency on the root fails with the circular-dependency error, whose
\* chain holds the repeated key exactly twice and ends with it.
C1_CycleAlwaysReported ==
    \A p \in RootExits :
        RepeatsBelow(CallEventOf(log[p].call).dep, {})
            => ~log[p].ok /\ exc = "cycle" /\ ChainHoldsLastTwice

\* C1, amended: when a key repeats along a path of the tree below a root,
\* build_dependency on the root fails; the error is the circular-dependency
\* error unless a node processed before the repeat is reached has failed, and
\* its chain holds the repeated key exactly twice and ends with it.
C1_CycleReportedUnlessEarlierFailure ==
    \A p \in RootExits :
        RepeatsBelow(CallEventOf(log[p].call).dep, {})
            => /\ ~log[p].ok
               /\ NoNodeFailed => exc = "cycle"
               /\ exc = "cycle" => ChainHoldsLastTwice

\* an indirect cycle was reported after a sibling had been built
C1_Witness ==
    /\ pc = "failed" /\ exc = "cycle"
    /\ Len(chain) >= 3
    /\ \E q \in Events : log[q].op = "cmd"

-----------------------------------------------------------------------------
(* C2 *)

\* C2: when no key repeats along any path of the tree below the release's
\* dependencies, the circular-dependency error is never raised, also when a
\* key is reached through two branches or listed twice.
C2_NoRepeatNoCycleError ==
    (\A n \in 1..Len(top_dep_list) : ~RepeatsBelow(top_dep_list[n], {}))
        => exc # "cycle"

\* a run without repeat has finished in which one key was built under two
\* different parents
C2_Witness ==
    /\ pc = "done"
    /\ \A n \in 1..Len(top_dep_list) : ~RepeatsBelow(top_dep_list[n], {})
    /\ \E q1, q2 \in Events :
          /\ log[q1].op = "call" /\ log[q2].op = "call"
          /\ log[q1].node = log[q2].node
          /\ log[q1].parent # log[q2].parent

-----------------------------------------------------------------------------
(* C3 *)

\* C3: whenever a build_dependency call returns or raises, the in-progress set
\* is what it was when the call started, and every in-progress set is empty
\* once the outermost call has returned or raised.
C3_EnterLeavePaired ==
    [][/\ (Len(stack') < Len(stack) /\ top.fn = "build_dependency")
            => sets'[builders[top.self].building_deps] = top.entry
       /\ (stack # <<>> /\ stack' = <<>>)
            => \A n \in 1..Len(sets') : sets'[n] = {}]_vars

\* a command of a sub-dependency has failed and the run has ended
C3_Witness ==
    /\ pc = "failed" /\ exc = "command"
    /\ \E q \in Events : /\ log[q].op = "cmd" /\ ~log[q].ok /\ log[q].call # 0
                          /\ CallEventOf(log[q].call).parent # 0
    /\ \A n \in 1..Len(sets) : sets[n] = {}

-----------------------------------------------------------------------------
(* C4 *)

\* C4, as claimed: the reported chain lists the in-progress keys in the order
\* in which they were entered, root first, followed by the repeating key.
C4_ChainInVisitationOrder ==
    exc = "cycle" =>
        LET p == CHOOSE q \in Events :
                    /\ log[q].op = "exit" /\ ~log[q].ok
                    /\ \A r \in 1..(q - 1) : log[r].op = "exit" => log[r].ok
        IN  chain = ActiveBefore(p)

-----------------------------------------------------------------------------
(* C5 *)

\* the node lists itself among its own sub-dependencies for the platform
ListsItself(ref) ==
    \E n \in 1..Len(DeclaredListOf(ref)) : DeclaredListOf(ref)[n] = ref

FirstSelfIndex(ref) ==
    CHOOSE n \in 1..Len(DeclaredListOf(ref)) :
        /\ DeclaredListOf(ref)[n] = ref
        /\ \A m \in 1..(n - 1) : DeclaredListOf(ref)[m] # ref

\* the exits of the calls on nodes that list themselves
SelfListingExits ==
    {p \in Events : log[p].op = "exit" /\ ListsItself(CallEventOf(log[p].call).dep)}

\* C5, as claimed: building a dependency that lists itself raises the
\* circular-dependency error and starts no external process, whatever else is
\* listed with it and wherever.
C5_SelfReferenceStartsNothing ==
    \A p \in SelfListingExits :
        /\ ~log[p].ok /\ exc = "cycle"
        /\ \A r \in CallPos(log[p].call)..p : log[r].op \notin Processes

\* C5, amended: building a dependency that lists itself fails, with the
\* circular-dependency error unless a sub-dependency listed before the
\* self-reference fails first; nothing is downloaded, cloned or run for the
\* dependency itself and nothing listed after the self-reference is entered,
\* but the sub-dependencies listed before it are processed.
C5_SelfReferenceStartsNothingOfItsOwn ==
    \A p \in SelfListingExits :
        LET c == log[p].call
        IN  /\ ~log[p].ok
            /\ NoNodeFailed => exc = "cycle"
            /\ \A r \in CallPos(c)..p :
                  /\ log[r].op \in External => log[r].call # c
                  /\ (log[r].op = "call" /\ log[r].parent = c)
                        => log[r].slot <= FirstSelfIndex(CallEventOf(c).dep)

\* a dependency listing itself second has failed with the cycle error after
\* its first sub-dependency ran a command
C5_Witness ==
    /\ pc = "failed" /\ exc = "cycle"
    /\ \E p \in SelfListingExits :
          /\ FirstSelfIndex(CallEventOf(log[p].call).dep) = 2
          /\ \E r \in CallPos(log[p].call)..p : log[r].op = "cmd"

-----------------------------------------------------------------------------
(* C6 *)

\* the slots of a declared list the traversal calls build_dependency for
BuiltSlots(list) == {n \in 1..Len(list) : list[n].name \in DOMAIN full_sub_deps_config}

\* before position r, call c has made and completed one call per slot of its
\* declared list, in declared order
SubDependenciesDoneBefore(c, r) ==
    LET list == DeclaredListOf(CallEventOf(c).dep)
        made(n, q) == /\ log[q].op = "call" /\ log[q].parent = c
                      /\ log[q].slot = n /\ log[q].dep = list[n]
        done(n, q) == /\ log[q].op = "exit" /\ log[q].ok
                      /\ CallEventOf(log[q].call).parent = c
                      /\ CallEventOf(log[q].call).slot = n
    IN  /\ \A n \in BuiltSlots(list) :
              \E q1, q2 \in 1..(r - 1) : q1 < q2 /\ made(n, q1) /\ done(n, q2)
        /\ \A n, m \in BuiltSlots(list) :
              n < m => \A q1, q2 \in 1..(r - 1) : (done(n, q1) /\ made(m, q2)) => q1 < q2

-----------------------------------------------------------------------------
(* C7 *)

\* C7: once a build command has exited non-zero, nothing more is called,
\* downloaded, verified, cloned, checked out or run, the failed command
\* included; artifacts are not collected and the run does not succeed.
C7_FailedCommandStopsTheRun ==
    \A p \in Events :
        (log[p].op = "cmd" /\ ~log[p].ok)
            => /\ \A r \in (p + 1)..Len(log) : log[r].op = "exit" /\ ~log[r].ok
               /\ exc = "command"
               /\ pc \in {"deps", "executing", "failed"}
               /\ stack = <<>> => pc = "failed"
               /\ artifacts = <<>>

\* a command of a sub-dependency failed after an earlier node had been built,
\* and the run has ended
C7_Witness ==
    /\ pc = "failed"
    /\ \E p \in Events :
          /\ log[p].op = "cmd" /\ ~log[p].ok /\ log[p].call # 0
          /\ CallEventOf(log[p].call).parent # 0
          /\ \E q \in 1..(p - 1) : log[q].op = "cmd" /\ log[q].node # log[p].node

-----------------------------------------------------------------------------
(* C8 *)

\* the archive of a tarball node with a declared hash is in directory wd and
\* has the declared digest
ArchiveMatches(cfg, wd) ==
    (cfg.type = "tarball" /\ "hash" \in DOMAIN cfg)
        => LET dest_path == wd \o <<Last(cfg.source)>>
           IN  dest_path \in DOMAIN fs /\ fs[dest_path] = cfg.hash[2]

ConfigOfCall(c) ==
    LET dep == CallEventOf(c).dep
    IN  full_sub_deps_config[dep.name].versions[dep.version]

\* C8: no command of a node runs while the node's archive does not have the
\* declared digest; once a verification has failed nothing more is called,
\* downloaded, cloned or run and the run does not succeed; and when the only
\* dependency of the release, one without sub-dependencies, fails its
\* verification, no command has run at all.
C8_HashMismatchStopsTheRun ==
    /\ \A r \in Events :
          log[r].op = "cmd"
              => IF log[r].call = 0
                 THEN ArchiveMatches(release_config, workdir)
                 ELSE ArchiveMatches(ConfigOfCall(log[r].call),
                                     CallEventOf(log[r].call).workdir)
    /\ \A p \in Events :
          (log[p].op = "verify" /\ ~log[p].ok)
              => /\ \A r \in (p + 1)..Len(log) : log[r].op = "exit" /\ ~log[r].ok
                 /\ exc = "hash"
                 /\ pc \in {"deps", "failed"}
                 /\ stack = <<>> => pc = "failed"
                 /\ artifacts = <<>>
                 /\ (/\ log[p].call = 1
                     /\ Len(top_dep_list) = 1
                     /\ DeclaredListOf(top_dep_list[1]) = <<>>)
                        => \A r \in Events : log[r].op # "cmd"

\* the verification of a sub-dependency's archive failed after another node had
\* run its commands, and the run has ended
C8_Witness ==
    /\ pc = "failed" /\ exc = "hash"
    /\ \E p \in Events :
          /\ log[p].op = "verify" /\ ~log[p].ok /\ log[p].call # 0
          /\ CallEventOf(log[p].call).parent # 0
          /\ \E q \in 1..(p - 1) : log[q].op = "cmd"

-----------------------------------------------------------------------------
(* C9 *)

\* a text with each placeholder of the original text replaced by the value of
\* its variable
RECURSIVE Expand(_, _)
Expand(text, env) ==
    IF text = <<>> THEN <<>>
    ELSE (IF \E n \in 1..Len(env) : Placeholder(env[n].k) = Head(text)
          THEN env[CHOOSE n \in 1..Len(env) : Placeholder(env[n].k) = Head(text)].v
          ELSE <<Head(text)>>)
         \o Expand(Tail(text), env)

\* the artifact paths the release declares for the platform: the patterns of
\* the first matching rule, expanded
ExpectedArtifacts ==
    IF "artifacts" \notin DOMAIN release_config THEN <<>>
    ELSE LET rules == release_config.artifacts
             matching == {n \in 1..Len(rules) : match(rules[n].pattern, platform)}
         IN  IF matching = {} THEN <<>>
             ELSE LET patterns == rules[CHOOSE n \in matching :
                                           \A m \in matching : n <= m].value
                  IN  [n \in 1..Len(patterns) |-> Expand(patterns[n], plugin_env)]

AllCommandsSucceeded == \A q \in Events : log[q].op = "cmd" => log[q].ok

\* C9: build returns only when every declared artifact path exists, and then
\* returns the paths in declared order; a missing path fails a run whose
\* commands all exited zero; without a matching artifact rule the collection
\* does not fail and the list is empty.
C9_ArtifactsVerified ==
    /\ pc = "done"
          => /\ artifacts = ExpectedArtifacts
             /\ \A n \in 1..Len(ExpectedArtifacts) : ExpectedArtifacts[n] \in DOMAIN fs
             /\ exc = "none"
    /\ exc = "artifact"
          => /\ pc = "failed"
             /\ \E n \in 1..Len(ExpectedArtifacts) : ExpectedArtifacts[n] \notin DOMAIN fs
             /\ AllCommandsSucceeded
    /\ ExpectedArtifacts = <<>> => exc # "artifact"

\* a run has returned two artifact paths
C9_Witness ==
    /\ pc = "done"
    /\ Len(artifacts) = 2
    /\ \A n \in 1..2 : artifacts[n] \in DOMAIN fs

-----------------------------------------------------------------------------
(* C10 *)

\* the first rule, in declared order, whose pattern matches; 0 if none does
FirstMatching(ks, plat) ==
    LET matching == {n \in 1..Len(ks) : match(ks[n], plat)}
    IN  IF matching = {} THEN 0
        ELSE CHOOSE n \in matching : \A m \in matching : n <= m

\* C10: each selector returns the value of the first matching rule, None or
\* the empty list when no rule matches; so the three select the same rule.
C10_FirstMatchWins ==
    LET first == FirstMatching(probe.keys, platform)
    IN  /\ "build" \in probe.done
            => probe.build = IF first = 0 THEN None ELSE [rule |-> first]
        /\ "artifacts" \in probe.done
            => probe.artifacts = IF first = 0 THEN <<>> ELSE <<[rule |-> first]>>
        /\ "dependencies" \in probe.done
            => probe.dependencies
                 = IF first = 0 THEN <<>> ELSE <<[name |-> "dep", version |-> first]>>

\* the three selectors have been applied to ("linux-.*", ".*") on a linux
\* platform and to a rule set of which a later rule matches as well
C10_Witness ==
    /\ probe.done = {"build", "artifacts", "dependencies"}
    /\ Len(probe.keys) >= 2
    /\ probe.keys[1] = Linux /\ probe.keys[2] = AnyPlatform
    /\ platform = Glibc
    /\ probe.build = [rule |-> 1]

-----------------------------------------------------------------------------
(* C11 *)

\* the patterns of the probed global-env rule set that match the platform and
\* set the variable
Setters(var) ==
    {n \in 1..Len(probe.config_env) :
        /\ match(probe.config_env[n].pattern, platform)
        /\ DictHas(probe.config_env[n].value, var)}

\* C11: merge_global_env gives each variable the value of the last pattern in
\* declared order that matches the platform and sets the variable; a variable
\* no matching pattern sets is absent; ('.*', V=1), ('linux-.*', V=2) gives
\* V=2 on a linux platform and V=1 elsewhere.
C11_LastMatchWins ==
    probe.done =>
        /\ \A var \in {"V", "W"} :
              IF Setters(var) = {}
              THEN ~DictHas(probe.merged_env, var)
              ELSE LET last == CHOOSE n \in Setters(var) : \A m \in Setters(var) : m <= n
                   IN  /\ DictHas(probe.merged_env, var)
                       /\ DictGet(probe.merged_env, var)
                            = DictGet(probe.config_env[last].value, var)
        /\ \A n \in 1..Len(probe.merged_env) : probe.merged_env[n].k \in {"V", "W"}
        /\ probe.config_env = <<Rule(AnyPlatform, <<[k |-> "V", v |-> <<"1">>]>>),
                                Rule(Linux, <<[k |-> "V", v |-> <<"2">>]>>)>>
              => probe.merged_env
                   = <<[k |-> "V", v |-> IF Head(platform) = "linux" THEN <<"2">> ELSE <<"1">>]>>

\* the rule set of the example has been merged for linux-x86_64-musl
C11_Witness ==
    /\ probe.done
    /\ platform = Musl
    /\ probe.config_env = <<Rule(AnyPlatform, <<[k |-> "V", v |-> <<"1">>]>>),
                            Rule(Linux, <<[k |-> "V", v |-> <<"2">>]>>)>>
    /\ probe.merged_env = <<[k |-> "V", v |-> <<"2">>]>>

-----------------------------------------------------------------------------
(* C12 *)

\* C12: after a build step's env fragment is applied, a variable of the
\* fragment that was unset has the new value; one that was set has
\* '<existing> <new>' when both are non-empty and otherwise whichever is
\* non-empty; the other variables are as they were.
C12_FragmentAccumulates ==
    probe.done =>
        \A key \in {"FLAGS", "OTHER"} :
            IF DictHas(probe.env, key)
            THEN LET new == Expand(DictGet(probe.env, key), probe.self_env)
                 IN  /\ DictHas(probe.result, key)
                     /\ DictGet(probe.result, key)
                          = IF ~DictHas(probe.build_env, key) THEN new
                            ELSE LET existing == DictGet(probe.build_env, key)
                                 IN  IF existing # <<>> /\ new # <<>>
                                     THEN existing \o <<" ">> \o new
                                     ELSE IF new # <<>> THEN new ELSE existing
            ELSE /\ DictHas(probe.result, key) <=> DictHas(probe.build_env, key)
                 /\ DictHas(probe.build_env, key)
                       => DictGet(probe.result, key) = DictGet(probe.build_env, key)

\* FLAGS was '-O2', the fragment gave '-g', and the result is '-O2 -g'
C12_Witness ==
    /\ probe.done
    /\ DictHas(probe.build_env, "FLAGS") /\ DictGet(probe.build_env, "FLAGS") = <<"-O2">>
    /\ DictHas(probe.env, "FLAGS") /\ DictGet(probe.env, "FLAGS") = <<"-g">>
    /\ DictGet(probe.result, "FLAGS") = <<"-O2", " ", "-g">>

-----------------------------------------------------------------------------
(* C13 *)

\* the env fragment declared by the build step whose command is event q
DeclaredFragment(q) ==
    LET build_config ==
            IF log[q].call = 0
            THEN get_build_config(release_config.build, platform)
            ELSE get_build_config(ConfigOfCall(log[q].call).build, platform)
    IN  IF "env" \in DOMAIN build_config THEN build_config.env ELSE <<>>

Declares(q, key, value) ==
    DictHas(DeclaredFragment(q), key) /\ DictGet(DeclaredFragment(q), key) = value

\* C13, as claimed: when an earlier build step of the run declared
\* CFLAGS='-O2' and the plugin's own step declares CFLAGS='-g', CFLAGS being
\* unset in the base environment, the plugin's commands run with
\* CFLAGS == '-O2 -g'.
C13_FragmentsAccumulateAcrossSteps ==
    \A q \in Events :
        (/\ log[q].op = "cmd" /\ log[q].call = 0
         /\ Declares(q, "CFLAGS", <<"-g">>)
         /\ ~DictHas(os_environ, "CFLAGS") /\ ~DictHas(plugin_env, "CFLAGS")
         /\ \E r \in 1..(q - 1) :
               log[r].op = "cmd" /\ log[r].call # 0 /\ Declares(r, "CFLAGS", <<"-O2">>))
            => /\ DictHas(log[q].env, "CFLAGS")
               /\ DictGet(log[q].env, "CFLAGS") = <<"-O2", " ", "-g">>

-----------------------------------------------------------------------------
(* C14 *)

\* C14, as claimed: whatever the order of the keys, the result of
\* substitute_vars is the text with each placeholder of the original text
\* replaced by its variable's value, the placeholders inside inserted values
\* left as they are.
C14_NoTransitiveExpansion ==
    probe.done => probe.result = Expand(probe.text, probe.env)

-----------------------------------------------------------------------------
(* C15 *)

\* C15: substitute_vars of '{A}/{B}' with {A: 'x', B: '{A}'} is 'x/{A}'.
C15_ExampleSubstitution ==
    (/\ probe.done
     /\ probe.text = <<"{A}", "/", "{B}">>
     /\ probe.env = <<[k |-> "A", v |-> <<"x">>], [k |-> "B", v |-> <<"{A}">>]>>)
        => probe.result = <<"x", "/", "{A}">>

\* the substitution of the example has been made
C15_Witness ==
    /\ probe.done
    /\ probe.text = <<"{A}", "/", "{B}">>
    /\ probe.env = <<[k |-> "A", v |-> <<"x">>], [k |-> "B", v |-> <<"{A}">>]>>
    /\ probe.result = <<"x", "/", "{A}">>

-----------------------------------------------------------------------------
(* C16 *)

\* C16, as claimed: a run succeeds only if every name the release lists for
\* the platform, and every name a built node lists for the platform, is in the
\* dependency catalogue.
C16_AbsentNameFailsTheRun ==
    pc = "done" =>
        /\ \A n \in 1..Len(top_dep_list) : top_dep_list[n].name \in DOMAIN full_deps_config
        /\ \A q \in Events :
              log[q].op = "call"
                  => \A m \in 1..Len(DeclaredListOf(log[q].dep)) :
                        DeclaredListOf(log[q].dep)[m].name \in DOMAIN full_sub_deps_config

-----------------------------------------------------------------------------
(* C17 *)

\* the versions table of the reference's dependency has no entry for its version
MissingVersion(ref) ==
    /\ ref.name \in DOMAIN full_sub_deps_config
    /\ ref.version \notin DOMAIN full_sub_deps_config[ref.name].versions

\* C17: a call for a version without entry in the versions table is followed
\* by nothing but its own failure: no sub-dependency is entered, no source
\* acquired, no command run for the node; the error is a configuration error,
\* the run does not succeed, and once the call has raised its key is in no
\* in-progress set.
C17_MissingVersionFails ==
    \A q \in Events :
        (log[q].op = "call" /\ MissingVersion(log[q].dep))
            => /\ pc \in {"deps", "failed"}
               /\ stack = <<>> => pc = "failed"
               /\ exc \in {"none", "config"}
               /\ \A r \in Events : r # q => log[r].call # log[q].call \/ log[r].op = "exit"
               /\ \A r \in Events : log[r].op = "call" => log[r].parent # log[q].call
               /\ q < Len(log)
                    => /\ log[q + 1].op = "exit" /\ log[q + 1].call = log[q].call
                       /\ ~log[q + 1].ok
                       /\ exc = "config"
                       /\ \A n \in 1..Len(sets) : log[q].node \notin sets[n]

\* a sub-dependency requested in a version its table lacks has failed the run
\* after a sibling had been built
C17_Witness ==
    /\ pc = "failed" /\ exc = "config"
    /\ \E q \in Events :
          /\ log[q].op = "call" /\ MissingVersion(log[q].dep) /\ log[q].parent # 0
          /\ \E r \in 1..(q - 1) : log[r].op = "cmd"
    /\ \A n \in 1..Len(sets) : sets[n] = {}

-----------------------------------------------------------------------------
(* C18 *)

\* the calls on nodes whose version is catalogued with a known source type and
\* without a build rule matching the platform
SkippedCalls ==
    {q \in Events :
        /\ log[q].op = "call"
        /\ ~MissingVersion(log[q].dep)
        /\ ConfigOfCall(log[q].call).type \in {"tarball", "git"}
        /\ \A n \in 1..Len(ConfigOfCall(log[q].call).build) :
              ~match(ConfigOfCall(log[q].call).build[n].pattern, platform)}

Exited(c) == \E p \in Events : log[p].op = "exit" /\ log[p].call = c

\* the slots after slot i of a parent's list for which build_dependency is called
LaterSlots(parent, i) ==
    LET list == IF parent = 0 THEN top_dep_list
                ELSE DeclaredListOf(CallEventOf(parent).dep)
    IN  {j \in (i + 1)..Len(list) : list[j].name \in DOMAIN full_sub_deps_config}

\* C18: a node without a build rule for the platform runs no command; its
\* call raises only if its own source or one of its sub-dependencies failed;
\* after it has returned, the later siblings are entered and the parent runs
\* its own commands wherever the parent itself has completed.
C18_NoBuildRuleIsASkip ==
    \A q \in SkippedCalls :
        LET c == log[q].call
            parent == log[q].parent
        IN  /\ \A r \in Events : log[r].op = "cmd" => log[r].call # c
            /\ Exited(c) =>
                 LET p == ExitPos(c)
                 IN  /\ ~log[p].ok
                        => \/ exc = "recursion"
                           \/ \E r \in (q + 1)..(p - 1) :
                                 /\ ~log[r].ok
                                 /\ \/ log[r].op \in External /\ log[r].call = c
                                    \/ log[r].op = "exit"
                     /\ (log[p].ok /\ parent # 0 /\ Exited(parent)
                            /\ log[ExitPos(parent)].ok)
                        => /\ \A j \in LaterSlots(parent, log[q].slot) :
                                 \E r \in (p + 1)..Len(log) :
                                     /\ log[r].op = "call"
                                     /\ log[r].parent = parent /\ log[r].slot = j
                           /\ CallEventOf(parent) \notin {log[x] : x \in SkippedCalls}
                                 => \E r \in (p + 1)..Len(log) :
                                       log[r].op = "cmd" /\ log[r].call = parent
                     /\ (log[p].ok /\ parent = 0 /\ pc \notin {"deps", "failed"})
                        => \A j \in LaterSlots(0, log[q].slot) :
                              \E r \in (p + 1)..Len(log) :
                                  /\ log[r].op = "call"
                                  /\ log[r].parent = 0 /\ log[r].slot = j

\* a node without build rule for the platform has returned, after which a
\* later sibling was entered and the parent ran a command of its own
C18_Witness ==
    \E q \in SkippedCalls :
        /\ log[q].parent # 0
        /\ Exited(log[q].call) /\ log[ExitPos(log[q].call)].ok
        /\ \E r \in ExitPos(log[q].call)..Len(log) :
              /\ log[r].op = "call"
              /\ log[r].parent = log[q].parent /\ log[r].slot > log[q].slot
        /\ \E r \in ExitPos(log[q].call)..Len(log) :
              log[r].op = "cmd" /\ log[r].call = log[q].parent

-----------------------------------------------------------------------------
(* C19 *)

\* no build rule of the release matches the platform
NoPluginBuildRule ==
    \A n \in 1..Len(release_config.build) :
        ~match(release_config.build[n].pattern, platform)

\* C19: when no build rule of the release matches the platform, no command of
\* the plugin runs, no artifacts are collected or returned, the run never
\* succeeds, and the step that selects the plugin's build rule ends the run
\* with a configuration error.
C19_NoPluginBuildRuleFails ==
    /\ [](NoPluginBuildRule
            => /\ pc \in {"deps", "download", "build", "failed"}
               /\ artifacts = <<>>
               /\ \A q \in Events : log[q].op = "cmd" => log[q].call # 0)
    /\ [][(NoPluginBuildRule /\ pc = "build")
            => (pc' = "failed" /\ exc' = "config" /\ stack' = <<>>)]_vars

\* the plugin's build rule was looked for after its dependency had been built
\* and its source downloaded, and the run has failed
C19_Witness ==
    /\ NoPluginBuildRule
    /\ pc = "failed" /\ exc = "config"
    /\ \E q \in Events : log[q].op = "exit" /\ log[q].ok
    /\ \E q \in Events : log[q].op = "download" /\ log[q].call = 0 /\ log[q].ok

-----------------------------------------------------------------------------
(* C20 *)

\* the source description of call c (0: the plugin's release)
SourceOfCall(c) == IF c = 0 THEN release_config ELSE ConfigOfCall(c)

\* where the archive of call c is kept
DestPathOfCall(c) ==
    (IF c = 0 THEN workdir ELSE CallEventOf(c).workdir) \o <<Last(SourceOfCall(c).source)>>

\* the archive verified at position p was found in place, not downloaded
Reused(p) == ~\E r \in 1..(p - 1) : log[r].op = "download" /\ log[r].call = log[p].call

\* the calls, 0 for the plugin, whose source is an archive with a declared hash
\* and which have got past the acquisition of their source
AcquiredWithHash ==
    {c \in 0..calls :
        /\ IF c = 0 THEN pc \in {"build", "executing", "collect", "done"}
           ELSE /\ ~MissingVersion(CallEventOf(c).dep)
                /\ \/ \E q \in Events : log[q].op = "cmd" /\ log[q].call = c
                   \/ \E q \in Events : log[q].op = "exit" /\ log[q].call = c /\ log[q].ok
        /\ SourceOfCall(c).type = "tarball"
        /\ "hash" \in DOMAIN SourceOfCall(c)}

\* C20, as claimed: a hash is only ever verified on an archive the same call
\* has just downloaded; an archive found in place is not verified, and so
\* cannot fail the run.
C20_ReusedArchiveNotVerified ==
    \A p \in Events : log[p].op = "verify" => ~Reused(p)

\* C20, amended: an archive is not downloaded to a path at which the run has
\* already downloaded one; every node with a declared hash gets past its
\* source only after its archive, downloaded or found in place, has passed
\* verification; and a failed verification, of a reused archive too, fails the
\* run with the hash error.
C20_ReusedArchiveIsVerified ==
    /\ \A r1, r2 \in Events :
          (/\ r1 < r2 /\ log[r1].op = "download" /\ log[r2].op = "download"
           /\ log[r1].ok)
              => DestPathOfCall(log[r1].call) # DestPathOfCall(log[r2].call)
    /\ \A c \in AcquiredWithHash :
          \E p \in Events : log[p].op = "verify" /\ log[p].call = c /\ log[p].ok
    /\ \A p \in Events :
          (log[p].op = "verify" /\ ~log[p].ok)
              => /\ exc = "hash"
                 /\ pc \in {"deps", "failed"}
                 /\ stack = <<>> => pc = "failed"

\* an archive found in place has failed verification and the run has failed
C20_Witness ==
    /\ pc = "failed" /\ exc = "hash"
    /\ \E p \in Events : log[p].op = "verify" /\ ~log[p].ok /\ Reused(p)

-----------------------------------------------------------------------------
(* C21 *)

\* C21, as claimed: every command of a node whose source is a git repository
\* with a declared ref runs after a checkout of the ref made by the same call,
\* whether or not the call has cloned the repository.
C21_RefCheckedOutBeforeBuild ==
    \A q \in Events :
        (/\ log[q].op = "cmd"
         /\ SourceOfCall(log[q].call).type = "git"
         /\ "tag" \in DOMAIN SourceOfCall(log[q].call))
            => \E r \in 1..(q - 1) :
                  log[r].op = "checkout" /\ log[r].call = log[q].call /\ log[r].ok

-----------------------------------------------------------------------------
(* C22 *)

\* C22, as claimed: update_build_env leaves each toolchain variable with the
\* value the additive merge of _execute_build gives it, whatever the existing
\* value (unset, empty, non-empty) and the toolchain's value (empty,
\* non-empty).
C22_ToolchainMergeIsAdditive ==
    probe.done =>
        LET toolchain_env == get_toolchain_env_vars(probe.toolchain)
        IN  \A n \in 1..Len(toolchain_env) :
                LET key == toolchain_env[n].k
                IN  /\ DictHas(probe.result, key)
                    /\ DictGet(probe.result, key)
                         = DictGet(accumulate(probe.build_env, key, toolchain_env[n].v), key)

-----------------------------------------------------------------------------
(* C23 *)

BuildRecordOf(key) ==
    probe.build_records[CHOOSE n \in 1..Len(probe.build_records) :
                            record_key(probe.build_records[n]) = key]

HasBuildRecord(key) ==
    \E n \in 1..Len(probe.build_records) : record_key(probe.build_records[n]) = key

TestRecordsOf(key) ==
    {n \in 1..Len(probe.test_records) : record_key(probe.test_records[n]) = key}

ListedInBaseTestMatrix(key) ==
    \E n \in 1..Len(probe.base_test_entries) :
        record_key(probe.base_test_entries[n]) = key

IsReleaseCandidate(key) ==
    \E n \in 1..Len(probe.result) : record_key(probe.result[n]) = key

\* C23: a key is a release candidate exactly when its build record has status
\* 'success' and either the base test matrix does not list the key, or the key
\* has at least one test record and all its test records have status
\* 'success'.
C23_ReleaseCandidates ==
    probe.done =>
        \A key \in ReleaseKeys :
            IsReleaseCandidate(key)
                <=> /\ HasBuildRecord(key)
                    /\ "status" \in DOMAIN BuildRecordOf(key)
                    /\ BuildRecordOf(key).status = "success"
                    /\ \/ ~ListedInBaseTestMatrix(key)
                       \/ /\ TestRecordsOf(key) # {}
                          /\ \A n \in TestRecordsOf(key) :
                                /\ "status" \in DOMAIN probe.test_records[n]
                                /\ probe.test_records[n].status = "success"

\* a key that requires tests, with a successful build and a successful test
\* record, is kept out by one more test record that did not succeed
C23_Witness ==
    /\ probe.done
    /\ \E key \in ReleaseKeys :
          /\ HasBuildRecord(key)
          /\ "status" \in DOMAIN BuildRecordOf(key)
          /\ BuildRecordOf(key).status = "success"
          /\ ListedInBaseTestMatrix(key)
          /\ \E n, m \in TestRecordsOf(key) :
                /\ n < m
                /\ "status" \in DOMAIN probe.test_records[n]
                /\ probe.test_records[n].status = "success"
                /\ "status" \in DOMAIN probe.test_records[m]
                /\ probe.test_records[m].status = "failure"
          /\ ~IsReleaseCandidate(key)
    /\ \E key \in ReleaseKeys : IsReleaseCandidate(key)

-----------------------------------------------------------------------------
(* C24 *)

\* what the coordinator does for the plugin itself: acquisition and commands
PluginEvents == {q \in Events : log[q].call = 0}

RootCalls == {q \in Events : log[q].op = "call" /\ log[q].parent = 0}

\* the top-level dependency of slot n has been built and has returned
TopLevelFinished(n, q) ==
    \E c \in RootCalls :
        /\ log[c].slot = n
        /\ \E r \in 1..(q - 1) :
              log[r].op = "exit" /\ log[r].call = log[c].call /\ log[r].ok

\* the steps of PluginBuilder.build, in its order
PhaseOrder == {<<"deps", "download">>, <<"download", "build">>,
               <<"build", "executing">>, <<"build", "collect">>,
               <<"executing", "collect">>, <<"collect", "done">>}

PhasesInOrder ==
    \* the top-level dependencies are built in declared order by the one
    \* DependencyBuilder, and so with its one in-progress set
    /\ \A q \in RootCalls :
          /\ log[q].slot \in 1..Len(top_dep_list)
          /\ log[q].dep = top_dep_list[log[q].slot]
          /\ \A n \in 1..(log[q].slot - 1) : TopLevelFinished(n, q)
    /\ \A n \in 1..Len(stack) :
          (stack[n].fn = "build_dependency" /\ stack[n].parent = 0)
              => /\ stack[n].self = 1
                 /\ builders[stack[n].self].building_deps = builders[1].building_deps
    \* the acquisition of the plugin's source and its commands follow all of them
    /\ \A q \in PluginEvents :
          /\ \A n \in 1..Len(top_dep_list) : TopLevelFinished(n, q)
          /\ \A r \in 1..(q - 1) :
                /\ log[r].op \in External \cup {"exit"} => log[r].ok
                /\ log[r].op = "call" => \E x \in (r + 1)..(q - 1) :
                                            log[x].op = "exit" /\ log[x].call = log[r].call
    /\ pc \notin {"deps", "failed"}
          => \A n \in 1..Len(top_dep_list) : TopLevelFinished(n, Len(log) + 1)
    \* the commands of the plugin follow the acquisition of its source
    /\ \A q, r \in PluginEvents :
          (log[q].op = "cmd" /\ log[r].op # "cmd") => r < q
    /\ pc \in {"deps", "download"} => \A q \in PluginEvents : log[q].op # "cmd"
    /\ pc = "deps" => PluginEvents = {}
    \* the artifacts are verified after the last command of the plugin
    /\ (pc \in {"collect", "done"} \/ exc = "artifact")
          => /\ \A q \in Events : log[q].op \in External => log[q].ok
             /\ Cardinality({q \in PluginEvents : log[q].op = "cmd"})
                  = Len(commands_of(plugin_build_config))

\* C24: a run builds the top-level dependencies of the release in declared
\* order with one in-progress set, then acquires the plugin's source, then
\* runs the plugin's commands, then verifies the artifacts; a step starts only
\* when the one before has ended without error, and no command of the plugin
\* runs before every dependency has finished.
C24_StrictPhaseOrder ==
    /\ [](PhasesInOrder)
    /\ [][pc' # pc => \/ pc' = "failed"
                      \/ /\ <<pc, pc'>> \in PhaseOrder
                         /\ exc = "none" /\ exc' = "none"]_vars

\* a run over two top-level dependencies has gone through all four steps
C24_Witness ==
    /\ pc = "done"
    /\ Len(top_dep_list) = 2
    /\ \E q, r \in PluginEvents : log[q].op # "cmd" /\ log[r].op = "cmd" /\ r > q + 1
    /\ \E q \in Events : log[q].op = "cmd" /\ log[q].call # 0

-----------------------------------------------------------------------------
(* C25 *)

\* the commands of the build step of call c, 0 for the plugin's
CommandsOfCall(c) ==
    IF c = 0 THEN commands_of(plugin_build_config)
    ELSE commands_of(get_build_config(ConfigOfCall(c).build, platform))

\* the working directory of the node of call c
WorkdirOfCall(c) == IF c = 0 THEN workdir ELSE CallEventOf(c).workdir

\* which command of its build step the command at position q is
CommandIndex(q) ==
    Cardinality({r \in 1..q : log[r].op = "cmd" /\ log[r].call = log[q].call})

\* the directory the n-th command of a list runs in: the cwd that the n-th
\* command or the nearest command before it declares, the node's working
\* directory when none does; {WORKDIR} stands for the node's working directory
StickyCwd(commands, n, wd) ==
    LET declaring == {m \in 1..n : "cwd" \in DOMAIN commands[m]}
    IN  IF declaring = {} THEN wd
        ELSE Expand(commands[CHOOSE m \in declaring : \A x \in declaring : x <= m].cwd,
                    <<[k |-> "WORKDIR", v |-> wd]>>)

\* C25: the first command of a build step runs in the node's working directory
\* unless it declares a cwd; a command that declares a cwd runs there; a
\* command that declares none runs where the nearest command before it that
\* declares one runs; a cwd declared in one node's step has no effect on the
\* commands of another node's step.
C25_StickyCwd ==
    \A q \in Events :
        log[q].op = "cmd"
            => /\ CommandIndex(q) \in 1..Len(CommandsOfCall(log[q].call))
               /\ log[q].cwd = StickyCwd(CommandsOfCall(log[q].call), CommandIndex(q),
                                         WorkdirOfCall(log[q].call))

\* after a dependency's step whose second command, a dict entry without cwd,
\* ran in the cwd its first command declares, the plugin's first command has
\* run in the plugin's working directory, its second in the cwd it declares
\* and its third, a plain string, in that cwd too
C25_Witness ==
    \E p, q, r, x \in Events :
        /\ p < q /\ q < r /\ r < x
        /\ log[p].op = "cmd" /\ log[p].call # 0
        /\ log[p].cwd # WorkdirOfCall(log[p].call)
        /\ log[q].op = "cmd" /\ log[q].call = 0 /\ log[q].cwd = workdir
        /\ log[r].op = "cmd" /\ log[r].call = 0 /\ log[r].cwd # workdir
        /\ log[x].op = "cmd" /\ log[x].call = 0 /\ log[x].cwd = log[r].cwd
        /\ CommandsOfCall(0)[CommandIndex(x)].kind = "str"
        /\ \E y, z \in 1..(q - 1) :
              /\ y < z /\ log[y].op = "cmd" /\ log[z].op = "cmd"
              /\ log[y].call = log[z].call /\ log[z].cwd = log[y].cwd
              /\ CommandsOfCall(log[z].call)[CommandIndex(z)].kind = "dict"
              /\ "cwd" \notin DOMAIN CommandsOfCall(log[z].call)[CommandIndex(z)]
              /\ log[z].cwd # WorkdirOfCall(log[z].call)

-----------------------------------------------------------------------------
(* C26 *)

\* the entries of a ':'-separated list of paths
RECURSIVE PathEntries(_, _)
PathEntries(value, entry) ==
    IF value = <<>> THEN <<entry>>
    ELSE IF Head(value) = ":" THEN <<entry>> \o PathEntries(Tail(value), <<>>)
    ELSE PathEntries(Tail(value), Append(entry, Head(value)))

EntriesOf(env, key) == IF DictHas(env, key) THEN PathEntries(DictGet(env, key), <<>>)
                       ELSE <<>>

\* a list without the entries that occur earlier in it
FirstOccurrences(entries) ==
    SelectSeq([n \in 1..Len(entries) |->
                  IF \E m \in 1..(n - 1) : entries[m] = entries[n] THEN <<>>
                  ELSE entries[n]],
              LAMBDA entry : entry # <<>>)

PrefixEntries ==
    IF ~DictHas(probe.result, "PREFIXDIR") THEN <<>>
    ELSE LET prefix == DictGet(probe.result, "PREFIXDIR")
         IN  <<prefix \o <<"lib", "pkgconfig">>, prefix \o <<"lib64", "pkgconfig">>,
               prefix \o <<"share", "pkgconfig">>, prefix \o <<"libdata", "pkgconfig">> >>

SysrootEntries ==
    IF ~DictHas(probe.environ, "SYSROOT") THEN <<>>
    ELSE LET sysroot == DictGet(probe.environ, "SYSROOT")
         IN  <<sysroot \o <<"usr", "lib", "pkgconfig">>,
               sysroot \o <<"usr", "lib64", "pkgconfig">>,
               sysroot \o <<"usr", "share", "pkgconfig">>,
               sysroot \o <<"usr", "libdata", "pkgconfig">> >>

\* C26, as claimed: the PKG_CONFIG_PATH of get_default_env holds no entry
\* twice: it is the prefix's pkg-config directories, then the sysroot's, then
\* the entries of the ambient PKG_CONFIG_PATH, without the entries that occur
\* earlier in that list.
C26_PkgConfigPathWithoutDuplicates ==
    probe.done =>
        LET entries == EntriesOf(probe.result, "PKG_CONFIG_PATH")
        IN  /\ \A n, m \in 1..Len(entries) : n # m => entries[n] # entries[m]
            /\ entries = FirstOccurrences(PrefixEntries \o SysrootEntries
                                          \o EntriesOf(probe.environ, "PKG_CONFIG_PATH"))

-----------------------------------------------------------------------------
(* C27 *)

\* the build_dependency calls that have passed the cycle check and have not
\* returned or raised yet
ActiveCalls ==
    {n \in 1..Len(stack) : stack[n].fn = "build_dependency" /\ stack[n].pc # "check"}

\* the in-progress set of the builder of a call on the stack
InProgress(n) == sets[builders[stack[n].self].building_deps]

\* C27: at every point the in-progress set holds exactly the keys of the nodes
\* on the active call path, the calls that are past the cycle check and have
\* not left: no key of a node that has finished or failed, none of a node on
\* another branch, and no node of the path holds a key another one holds.
C27_InProgressIsTheActivePath ==
    /\ \A n \in 1..Len(stack) :
          stack[n].fn = "build_dependency"
              => InProgress(n) = {stack[m].dep_key : m \in ActiveCalls}
    /\ \A n, m \in ActiveCalls : n # m => stack[n].dep_key # stack[m].dep_key
    /\ (\A n \in 1..Len(stack) : stack[n].fn # "build_dependency")
          => \A n \in 1..Len(sets) : sets[n] = {}

\* two nodes are on the active path after a sibling of the inner one has
\* finished and while a failure of the inner one is on its way out
C27_Witness ==
    /\ Len(stack) = 2 /\ ActiveCalls = {1, 2}
    /\ exc # "none"
    /\ InProgress(2) = {stack[1].dep_key, stack[2].dep_key}
    /\ \E q \in Events :
          /\ log[q].op = "exit" /\ log[q].ok
          /\ CallEventOf(log[q].call).parent = stack[1].id
          /\ log[q].node \notin InProgress(2)

-----------------------------------------------------------------------------
(* C28 *)

\* the (name, version) keys of the catalogue the run looks its nodes up in
KeysOf(catalogue) ==
    UNION {{dep_key(name, v) : v \in DOMAIN catalogue[name].versions} :
              name \in DOMAIN catalogue}

CatalogueKeys == KeysOf(full_deps_config) \cup KeysOf(full_sub_deps_config)

\* how many build_dependency calls are on the way when call c has been made
RECURSIVE DepthOfCall(_)
DepthOfCall(c) == IF c = 0 THEN 0 ELSE 1 + DepthOfCall(CallEventOf(c).parent)

\* C28: every run ends, with the artifacts or with an error, whatever the
\* catalogue (external commands, downloads and clones return); the
\* build_dependency calls are never nested deeper than the number of keys of
\* the catalogue plus one, and the recursion limit is never hit.
C28_RunTerminates ==
    /\ <>Terminated
    /\ [](/\ Len(stack) <= Cardinality(CatalogueKeys) + 1
          /\ exc # "recursion")
    /\ [][~Terminated]_vars

\* a run over a catalogue with a cycle has ended after a call nested one
\* deeper than there are keys in the catalogue
C28_Witness ==
    /\ Terminated
    /\ Cardinality(CatalogueKeys) = 3
    /\ \E n \in 1..Len(top_dep_list) : RepeatsBelow(top_dep_list[n], {})
    /\ \E q \in Events :
          /\ log[q].op = "call"
          /\ DepthOfCall(log[q].call) = Cardinality(CatalogueKeys) + 1

-----------------------------------------------------------------------------
(* C29 *)

EmittedPlatforms == {probe.matrix[n].platform : n \in 1..Len(probe.matrix)}

\* C29, as claimed: the matrix holds an entry for a platform exactly when some
\* pattern of the release's build section matches the platform, it holds no
\* entry twice, and the build of an entry on its platform selects a build rule
\* and does not raise 'No build configuration for platform'.
C29_EmittedEntriesAreBuildable ==
    /\ probe.done
          => /\ \A p \in SeqToSet(PLATFORMS) :
                   p \in EmittedPlatforms
                      <=> \E n \in 1..Len(probe.release.build) :
                             match(probe.release.build[n].pattern, p)
             /\ \A n, m \in 1..Len(probe.matrix) :
                   n # m => probe.matrix[n] # probe.matrix[m]
    /\ probe.built # "raised"

-----------------------------------------------------------------------------
(* C30 *)

\* C30, as claimed: the environment of every command of a node whose source
\* is a tarball holds the file name of that tarball as DL_FILE_NAME, and the
\* environment of every command of a node whose source is a git repository
\* holds no DL_FILE_NAME; so for the plugin's own commands.
C30_FileNameScopedToItsNode ==
    \A q \in Events :
        log[q].op = "cmd"
            => LET source == SourceOfCall(log[q].call)
               IN  IF source.type = "tarball"
                   THEN /\ DictHas(log[q].env, "DL_FILE_NAME")
                        /\ DictGet(log[q].env, "DL_FILE_NAME") = <<Last(source.source)>>
                   ELSE ~DictHas(log[q].env, "DL_FILE_NAME")

====
